---- MODULE Spec2Model ----
(***************************************************************************)
(* Model of package hls of nashiradeer/vrmix: the HLS media playlist       *)
(* parser (ParseHlsManifest), the serializer (Manifest.String), the merger *)
(* (Manifest.Merge, Manifest.IsCompatible) and the count-based trimming    *)
(* (Manifest.RemoveFromStart, Manifest.RemoveFromEnd and the methods of    *)
(* the same names of SegmentGroup).                                        *)
(*                                                                         *)
(* A playlist text is a TLA+ string, lines separated by "\n", exactly as   *)
(* the Go string handed to ParseHlsManifest.  The functions of package     *)
(* strings and strconv the code calls are operators over such strings,     *)
(* computed character by character.                                        *)
(***************************************************************************)
EXTENDS Integers, Sequences, FiniteSets, TLC

(***************************************************************************)
(* Bounds of the model.                                                    *)
(***************************************************************************)
\* most segments in one group of a generated input playlist
MaxGroupLen == 3
\* largest count n handed to RemoveFromStart / RemoveFromEnd
MaxN == 3
\* most calls made on the base manifest after it was parsed
MaxCalls == 2

(***************************************************************************)
(* Unsigned integers.  Version and TargetDuration are uint8 and fit an     *)
(* integer of the model.  MediaSequence and DiscontinuitySequence are      *)
(* uint32 (manifest.go:9-10): a uint32 is kept as two 16-bit limbs,        *)
(* [hi, lo] standing for hi * 65536 + lo, so that the values up to         *)
(* 4294967295 and the wrap-around of Go's unsigned addition are exact.     *)
(***************************************************************************)
Limb == 2 ^ 16
Uint32(hi, lo) == [hi |-> hi, lo |-> lo]
ZeroUint32 == Uint32(0, 0)
MaxUint32 == Uint32(Limb - 1, Limb - 1)
MaxUint8 == 2 ^ 8 - 1

\* a + uint32(k) in uint32 arithmetic, for an int k in 0 .. 65535: Go wraps
\* around on overflow
AddUint32(a, k) ==
    LET lo == a.lo + k IN
    Uint32((a.hi + (lo \div Limb)) % Limb, lo % Limb)

\* a < b and a <= b on uint32
LessUint32(a, b) == a.hi < b.hi \/ (a.hi = b.hi /\ a.lo < b.lo)
LeqUint32(a, b) == a = b \/ LessUint32(a, b)

(***************************************************************************)
(* With(x, F) is F(x) with x evaluated once, before F is applied: the      *)
(* local variable of the code that holds an intermediate result.           *)
(***************************************************************************)
With(x, F(_)) == CHOOSE r \in {F(v) : v \in {x}} : TRUE

\* n turns of a loop whose body is Step, from the state s: the first half of
\* the turns, then the rest
RECURSIVE Iterate(_, _, _)
Iterate(Step(_), s, n) ==
    IF n <= 0 THEN s
    ELSE IF n = 1 THEN Step(s)
    ELSE With(Iterate(Step, s, n \div 2), LAMBDA t : Iterate(Step, t, (n + 1) \div 2))

(***************************************************************************)
(* Package strings.                                                        *)
(***************************************************************************)
\* the character of s at 1-based position i, as a one-character string
CharAt(s, i) == SubSeq(s, i, i)

\* strings.HasPrefix(s, prefix)
HasPrefix(s, prefix) ==
    /\ Len(s) >= Len(prefix)
    /\ SubSeq(s, 1, Len(prefix)) = prefix

\* strings.Index(s, sep) for a one-character sep, searching from position i;
\* 0 when sep does not occur
RECURSIVE IndexFrom(_, _, _)
IndexFrom(s, sep, i) ==
    IF i > Len(s) THEN 0
    ELSE IF CharAt(s, i) = sep THEN i
    ELSE IndexFrom(s, sep, i + 1)

\* strings.Cut(s, sep) for a one-character sep
CutAt(s, i) ==
    IF i = 0 THEN [before |-> s, after |-> "", found |-> FALSE]
    ELSE [before |-> SubSeq(s, 1, i - 1),
          after  |-> SubSeq(s, i + 1, Len(s)),
          found  |-> TRUE]

Cut(s, sep) ==
    With(s, LAMBDA t : With(IndexFrom(t, sep, 1), LAMBDA i : CutAt(t, i)))

\* strings.Split(s, "\n"): always at least one element, a trailing "\n"
\* gives a trailing empty element
RECURSIVE Split(_)
Split(s) ==
    With(Cut(s, "\n"),
         LAMBDA c : IF c.found THEN <<c.before>> \o Split(c.after)
                    ELSE <<c.before>>)

(***************************************************************************)
(* Package strconv.                                                        *)
(***************************************************************************)
Digits == <<"0", "1", "2", "3", "4", "5", "6", "7", "8", "9">>
IsDigit(c) == \E d \in 1..10 : Digits[d] = c
DigitValue(c) == (CHOOSE d \in 1..10 : Digits[d] = c) - 1

\* n * 10 + d on the limbs of a uint32 n, as one step of the loop of
\* ParseUint; over tells that the result is above the largest value of
\* bitSize bits
MulAddUint32(n, d, bitSize) ==
    LET lo == n.lo * 10 + d
        hi == n.hi * 10 + (lo \div Limb)
    IN  [hi   |-> hi % Limb,
         lo   |-> lo % Limb,
         over |-> hi >= Limb \/ (bitSize = 8 /\ (hi > 0 \/ lo > MaxUint8))]

\* the largest value of bitSize bits, for bitSize 8 and 32
MaxVal(bitSize) == IF bitSize = 8 THEN Uint32(0, MaxUint8) ELSE MaxUint32

\* one turn of the loop of ParseUint, over the byte of s at r.i, r.value
\* being the value of the digits before it: a byte that is no digit is a
\* syntax error, a value above maxVal is a range error, and either ends the
\* loop
ParseUintByte(r) ==
    IF r.err # "nil" THEN r
    ELSE IF ~IsDigit(CharAt(r.s, r.i))
    THEN [r EXCEPT !.value = ZeroUint32, !.err = "ErrSyntax"]
    ELSE With(MulAddUint32(r.value, DigitValue(CharAt(r.s, r.i)), r.bitSize), LAMBDA n1 :
             IF n1.over THEN [r EXCEPT !.value = MaxVal(r.bitSize), !.err = "ErrRange"]
             ELSE [r EXCEPT !.i = @ + 1, !.value = Uint32(n1.hi, n1.lo)])

\* strconv.ParseUint(s, 10, bitSize) for bitSize 8 and 32: err is "nil",
\* "ErrSyntax" or "ErrRange"
ParseUint(s, bitSize) ==
    With([s |-> s, bitSize |-> bitSize, i |-> 1, value |-> ZeroUint32, err |-> "nil"],
         LAMBDA r0 :
        IF r0.s = "" THEN [value |-> ZeroUint32, err |-> "ErrSyntax"]
        ELSE With(Iterate(ParseUintByte, r0, Len(r0.s)),
                  LAMBDA r : [value |-> r.value, err |-> r.err]))

\* decimal digits of an integer of the model, most significant first
RECURSIVE FormatInt(_)
FormatInt(v) ==
    IF v < 10 THEN Digits[v + 1]
    ELSE FormatInt(v \div 10) \o Digits[(v % 10) + 1]

\* strconv.FormatUint(uint64(v), 10) of a uint32: long division by 10 over
\* the limbs
RECURSIVE FormatUint(_)
FormatUint(v) ==
    IF v.hi = 0 THEN FormatInt(v.lo)
    ELSE LET low == (v.hi % 10) * Limb + v.lo IN
         FormatUint(Uint32(v.hi \div 10, low \div 10)) \o Digits[(low % 10) + 1]

(***************************************************************************)
(* float32.  A float32 is its three IEEE 754 fields, as in                 *)
(* math.Float32bits: sign (1 bit), exp (8 bits, biased by 127) and frac    *)
(* (23 bits).  exp 255 is an infinity (frac 0) or a NaN; exp 0 is a zero   *)
(* or a subnormal, frac * 2^-149; any other is (2^23 + frac) * 2^(exp-150).*)
(***************************************************************************)
Float32(sign, exp, frac) == [sign |-> sign, exp |-> exp, frac |-> frac]

MantBits == 23
\* 2^23, the implicit bit, and 2^24
ImplicitBit == 2 ^ MantBits
MantLimit == 2 ^ (MantBits + 1)
\* the exponent field of an infinity or a NaN
ExpSpecial == 2 ^ 8 - 1
\* the binary exponent of the lowest bit of a subnormal: 1 - 127 - 23
MinExp2 == 0 - 149

ZeroFloat == Float32(0, 0, 0)
Inf(sign) == Float32(sign, ExpSpecial, 0)
\* float32(math.NaN())
NaN == Float32(0, ExpSpecial, 2 ^ (MantBits - 1))

Cmp(a, b) == IF a < b THEN 0 - 1 ELSE IF a > b THEN 1 ELSE 0

(***************************************************************************)
(* Natural numbers of any size, for the exact arithmetic of the            *)
(* conversions between decimal and binary: the sequence of the digits in   *)
(* base 10^4, least significant first, without leading zero digits.        *)
(***************************************************************************)
Radix == 10 ^ 4

BigFromInt(n) ==
    IF n = 0 THEN <<>>
    ELSE IF n < Radix THEN <<n>>
    ELSE IF n < Radix * Radix THEN <<n % Radix, n \div Radix>>
    ELSE <<n % Radix, (n \div Radix) % Radix, n \div (Radix * Radix)>>

\* a * f + c, for 0 < f <= 2^16 and 0 <= c < 2^16: one digit of a after the
\* other, s.c being the carry
BigMulAddDigit(s) ==
    LET v == s.a[s.i] * s.f + s.c
    IN  [s EXCEPT !.i = @ + 1, !.c = v \div Radix, !.out = Append(@, v % Radix)]

BigMulAdd(a, f, c) ==
    With([a |-> a, f |-> f, c |-> c, i |-> 1, out |-> <<>>], LAMBDA s0 :
    With(Iterate(BigMulAddDigit, s0, Len(s0.a)), LAMBDA s :
        s.out \o BigFromInt(s.c)))

\* a * f^n for f 2, 5 or 10, by the largest power of f below 2^16 at a time
Chunk(f) == IF f = 2 THEN 15 ELSE IF f = 5 THEN 6 ELSE 4

BigMulPowStep(s) ==
    IF s.n >= Chunk(s.f)
    THEN [s EXCEPT !.a = BigMulAdd(@, s.f ^ Chunk(s.f), 0), !.n = @ - Chunk(s.f)]
    ELSE [s EXCEPT !.a = BigMulAdd(@, s.f, 0), !.n = @ - 1]

BigMulPow(a, f, n) ==
    With([a |-> a, f |-> f, n |-> n], LAMBDA s0 :
        Iterate(BigMulPowStep, s0, (s0.n \div Chunk(s0.f)) + (s0.n % Chunk(s0.f))).a)

\* the number written with the digits ds in the base nb, 10 or 16, most
\* significant first, four digits at a time
BigFromDigitsStep(s) ==
    IF (Len(s.ds) - s.i + 1) % 4 # 0
    THEN [s EXCEPT !.acc = BigMulAdd(@, s.nb, s.ds[s.i]), !.i = @ + 1]
    ELSE [s EXCEPT !.acc = BigMulAdd(@, s.nb ^ 4,
                               ((s.ds[s.i] * s.nb + s.ds[s.i + 1]) * s.nb
                                + s.ds[s.i + 2]) * s.nb + s.ds[s.i + 3]),
                   !.i = @ + 4]

BigFromDigits(ds, nb) ==
    With([ds |-> ds, nb |-> nb, i |-> 1, acc |-> <<>>], LAMBDA s0 :
        Iterate(BigFromDigitsStep, s0, (Len(s0.ds) % 4) + (Len(s0.ds) \div 4)).acc)

\* the position of the last element of a that is not v, 0 when there is none
LastNot(a, v) ==
    IF \A i \in 1..Len(a) : a[i] = v THEN 0
    ELSE CHOOSE i \in 1..Len(a) : a[i] # v /\ \A j \in (i + 1)..Len(a) : a[j] = v

\* -1, 0 or 1 as a is below, equal to or above b: by the number of digits,
\* then by the most significant digit in which they differ
BigCmp(a, b) ==
    IF Len(a) # Len(b) THEN Cmp(Len(a), Len(b))
    ELSE IF a = b THEN 0
    ELSE LET i == CHOOSE k \in 1..Len(a) :
                      a[k] # b[k] /\ \A j \in (k + 1)..Len(a) : a[j] = b[j]
         IN  Cmp(a[i], b[i])

\* a - b for a >= b, s.borrow being the borrow
BigSubDigit(s) ==
    LET v == s.a[s.i] - (IF s.i <= Len(s.b) THEN s.b[s.i] ELSE 0) - s.borrow
    IN  [s EXCEPT !.i = @ + 1,
                  !.borrow = IF v < 0 THEN 1 ELSE 0,
                  !.out = Append(@, IF v < 0 THEN v + Radix ELSE v)]

BigSub(a, b) ==
    With([a |-> a, b |-> b, i |-> 1, borrow |-> 0, out |-> <<>>], LAMBDA s0 :
    With(Iterate(BigSubDigit, s0, Len(s0.a)), LAMBDA s :
        SubSeq(s.out, 1, LastNot(s.out, 0))))

\* the number of binary digits of an integer 0 <= v < 2^30, and the decimal
\* digits of an integer 0 <= v < 10^9, most significant first
BitLen(v) == CHOOSE j \in 0..30 : v < 2 ^ j /\ (j = 0 \/ v >= 2 ^ (j - 1))

IntDigits(v) ==
    LET k == CHOOSE j \in 1..9 : v < 10 ^ j /\ (j = 1 \/ v >= 10 ^ (j - 1))
    IN  [j \in 1..k |-> (v \div (10 ^ (k - j))) % 10]

\* the decimal digits of a, most significant first; none for zero
BigDigits(a) ==
    IF a = <<>> THEN <<>>
    ELSE IntDigits(a[Len(a)])
         \o [j \in 1..(4 * (Len(a) - 1)) |->
                (a[Len(a) - 1 - ((j - 1) \div 4)] \div (10 ^ (3 - ((j - 1) % 4)))) % 10]

\* the integer written with the decimal digits lo to hi of ds, at most nine
RECURSIVE IntFromDigits(_, _, _)
IntFromDigits(ds, lo, hi) ==
    IF lo > hi THEN 0
    ELSE IF lo = hi THEN ds[lo]
    ELSE IntFromDigits(ds, lo, (lo + hi) \div 2) * 10 ^ (hi - ((lo + hi) \div 2))
         + IntFromDigits(ds, ((lo + hi) \div 2) + 1, hi)

(***************************************************************************)
(* Rounding a positive rational n / m to float32.  The result of the       *)
(* division is [q, e, half]: q the quotient floor((n / m) / 2^e), with     *)
(* 2^23 <= q < 2^24 or e = -149, and half the remainder against one half   *)
(* of 2^e (-1 below, 0 equal, 1 above).                                    *)
(***************************************************************************)
\* the most bits by which a remainder below m can be shifted and stay below
\* 2^31, and at most 24
SmallWidth(m) ==
    IF BitLen(m) >= 30 THEN 1
    ELSE IF 30 - BitLen(m) > MantBits + 1 THEN MantBits + 1
    ELSE 30 - BitLen(m)

\* the next bits of the quotient, s.r being the remainder, until there are
\* 24: as many at a time as the remainder can be shifted by
SmallBits(s) ==
    IF s.q >= ImplicitBit THEN s
    ELSE LET need == MantBits + 1 - BitLen(s.q)
             k == IF need < SmallWidth(s.m) THEN need ELSE SmallWidth(s.m)
         IN  [s EXCEPT !.q = @ * 2 ^ k + (s.r * 2 ^ k) \div s.m,
                       !.r = (@ * 2 ^ k) % s.m,
                       !.e = @ - k]

\* n and m integers of the model, 0 < n < 10^9 and m <= 10^9.  A quotient of
\* 24 bits or more is cut to 24 by doubling the divisor; a shorter one gets
\* its bits from the remainder, SmallWidth(m) at a time, and one turn more
\* when the quotient starts at 0.
DivideSmall(n, m) ==
    IF n \div m >= MantLimit
    THEN LET k == BitLen(n \div m) - (MantBits + 1)
             d == m * 2 ^ k
         IN  [q |-> n \div d, e |-> k, half |-> Cmp(2 * (n % d), d)]
    ELSE With([q |-> n \div m, r |-> n % m, m |-> m, e |-> 0], LAMBDA s0 :
         With(Iterate(SmallBits, s0,
                      LET w == SmallWidth(s0.m) IN
                      IF s0.q > 0 THEN (MantBits + 1 - BitLen(s0.q) + w - 1) \div w
                      ELSE (MantBits + 1 + BitLen(s0.m) - BitLen(s0.r) + w - 1) \div w + 1),
              LAMBDA s :
             [q |-> s.q, e |-> s.e, half |-> Cmp(2 * s.r, s.m)]))

\* n and t = m * 2^23 * 2^e of any size: t is doubled while n / t >= 2, n is
\* doubled while n / t < 1 until e is the exponent of the subnormals; both
\* by 2^16 at a time while that does not go too far
BigNormaliseStep(s) ==
    IF s.done THEN s
    ELSE IF BigCmp(s.n, BigMulAdd(s.t, 2 ^ 16, 0)) >= 0
    THEN [s EXCEPT !.t = BigMulAdd(@, 2 ^ 16, 0), !.e = @ + 16]
    ELSE IF BigCmp(s.n, BigMulAdd(s.t, 2, 0)) >= 0
    THEN [s EXCEPT !.t = BigMulAdd(@, 2, 0), !.e = @ + 1]
    ELSE IF s.e - 16 >= MinExp2 /\ BigCmp(BigMulAdd(s.n, 2 ^ 16, 0), s.t) <= 0
    THEN [s EXCEPT !.n = BigMulAdd(@, 2 ^ 16, 0), !.e = @ - 16]
    ELSE IF s.e > MinExp2 /\ BigCmp(s.n, s.t) < 0
    THEN [s EXCEPT !.n = BigMulAdd(@, 2, 0), !.e = @ - 1]
    ELSE [s EXCEPT !.done = TRUE]

\* the most turns the normalisation takes: the quotients ParseFloat rounds
\* lie between 2^-173 and 2^107 times 2^23, which is at most 9 + 16 turns
\* down to the exponent of the subnormals and 6 + 15 turns up
MaxNormalise == 32

\* one more bit of floor(r / t), for r < 2 * t, r being doubled for the next
BigBit(s) ==
    IF BigCmp(s.r, s.t) >= 0
    THEN [s EXCEPT !.r = BigMulAdd(BigSub(@, s.t), 2, 0), !.q = 2 * @ + 1]
    ELSE [s EXCEPT !.r = BigMulAdd(@, 2, 0), !.q = 2 * @]

DivideBig(n, m) ==
    With([n |-> n, t |-> BigMulAdd(BigMulAdd(m, 2 ^ 12, 0), 2 ^ 11, 0), e |-> 0,
          done |-> FALSE], LAMBDA s0 :
    With(Iterate(BigNormaliseStep, s0, MaxNormalise), LAMBDA s :
    With(Iterate(BigBit, [r |-> s.n, t |-> s.t, q |-> 0], MantBits + 1), LAMBDA b :
        [q |-> b.q, e |-> s.e, half |-> BigCmp(b.r, b.t)])))

\* round to nearest, halfway to the even mantissa
RoundHalfEven(r) ==
    LET q == IF r.half > 0 \/ (r.half = 0 /\ r.q % 2 = 1) THEN r.q + 1 ELSE r.q
    IN  IF q = MantLimit THEN [q |-> ImplicitBit, e |-> r.e + 1]
        ELSE [q |-> q, e |-> r.e]

\* the float32 of mantissa q and exponent e, an infinity and a range error
\* past the largest exponent
Assemble(sign, r) ==
    IF r.q < ImplicitBit THEN [value |-> Float32(sign, 0, r.q), err |-> "nil"]
    ELSE IF r.e - MinExp2 + 1 >= ExpSpecial
    THEN [value |-> Inf(sign), err |-> "ErrRange"]
    ELSE [value |-> Float32(sign, r.e - MinExp2 + 1, r.q - ImplicitBit),
          err   |-> "nil"]

\* the float32 nearest to 0.d1 d2 ... * 10^dp for the decimal digits ds, the
\* first of them not 0.  Above 10^39 it is an infinity, below 10^-46 a zero.
DecimalToFloat(sign, ds, dp) ==
    LET nd == Len(ds) IN
    IF nd = 0 THEN [value |-> Float32(sign, 0, 0), err |-> "nil"]
    ELSE IF dp > 39 THEN [value |-> Inf(sign), err |-> "ErrRange"]
    ELSE IF dp < 0 - 45 THEN [value |-> Float32(sign, 0, 0), err |-> "nil"]
    ELSE With(IF nd <= 9 /\ dp <= nd /\ nd - dp <= 9
              THEN DivideSmall(IntFromDigits(ds, 1, nd), 10 ^ (nd - dp))
              ELSE IF dp >= nd
              THEN DivideBig(BigMulPow(BigFromDigits(ds, 10), 10, dp - nd), <<1>>)
              ELSE DivideBig(BigFromDigits(ds, 10), BigMulPow(<<1>>, 10, nd - dp)),
              LAMBDA r : Assemble(sign, RoundHalfEven(r)))

\* the float32 nearest to 0.h1 h2 ... * 2^dp for the hexadecimal digits ds,
\* the first of them not 0
HexToFloat(sign, ds, dp) ==
    LET nd == Len(ds) IN
    IF nd = 0 THEN [value |-> Float32(sign, 0, 0), err |-> "nil"]
    ELSE IF dp - 4 >= 128 THEN [value |-> Inf(sign), err |-> "ErrRange"]
    ELSE IF dp <= 0 - 150 THEN [value |-> Float32(sign, 0, 0), err |-> "nil"]
    ELSE With(IF dp >= 4 * nd
              THEN DivideBig(BigMulPow(BigFromDigits(ds, 16), 2, dp - 4 * nd), <<1>>)
              ELSE DivideBig(BigFromDigits(ds, 16), BigMulPow(<<1>>, 2, 4 * nd - dp)),
              LAMBDA r : Assemble(sign, RoundHalfEven(r)))

(***************************************************************************)
(* strconv.ParseFloat(s, 32): the syntax.                                  *)
(***************************************************************************)
UpperLetters == <<"A", "B", "C", "D", "E", "F", "G", "H", "I", "J", "K", "L", "M",
                  "N", "O", "P", "Q", "R", "S", "T", "U", "V", "W", "X", "Y", "Z">>
LowerLetters == <<"a", "b", "c", "d", "e", "f", "g", "h", "i", "j", "k", "l", "m",
                  "n", "o", "p", "q", "r", "s", "t", "u", "v", "w", "x", "y", "z">>

\* lower(c): the lower-case form of an ASCII letter
Lower(c) ==
    IF \E i \in 1..26 : UpperLetters[i] = c
    THEN LowerLetters[CHOOSE i \in 1..26 : UpperLetters[i] = c]
    ELSE c

\* the hexadecimal digits a to f, in either case
IsHexLetter(c) == \E i \in 1..6 : LowerLetters[i] = Lower(c)
HexLetterValue(c) == (CHOOSE i \in 1..6 : LowerLetters[i] = Lower(c)) + 9

\* commonPrefixLenIgnoreCase(s, prefix), prefix being in lower case
commonPrefixLenIgnoreCase(s, prefix) ==
    LET n == IF Len(s) < Len(prefix) THEN Len(s) ELSE Len(prefix)
    IN  CHOOSE k \in 0..n :
            /\ \A j \in 1..k : Lower(CharAt(s, j)) = CharAt(prefix, j)
            /\ k = n \/ Lower(CharAt(s, k + 1)) # CharAt(prefix, k + 1)

\* special(s): a possibly signed Inf or Infinity, or NaN, at the start of s,
\* and the number n of bytes it takes
special(s) ==
    LET none == [ok |-> FALSE, value |-> ZeroFloat, n |-> 0]
        c == CharAt(s, 1)
    IN  IF s = "" THEN none
        ELSE IF c \in {"+", "-", "i", "I"} THEN
            LET nsign == IF c \in {"+", "-"} THEN 1 ELSE 0
                n0 == commonPrefixLenIgnoreCase(SubSeq(s, nsign + 1, Len(s)), "infinity")
                n == IF 3 < n0 /\ n0 < 8 THEN 3 ELSE n0
            IN  IF n = 3 \/ n = 8
                THEN [ok |-> TRUE, value |-> Inf(IF c = "-" THEN 1 ELSE 0), n |-> nsign + n]
                ELSE none
        ELSE IF c \in {"n", "N"} THEN
            IF commonPrefixLenIgnoreCase(s, "nan") = 3
            THEN [ok |-> TRUE, value |-> NaN, n |-> 3]
            ELSE none
        ELSE none

\* underscoreOK(s): every underscore of s separates two digits, or follows
\* a base prefix; r.i is the position, r.saw the kind of the last character
underscoreOKByte(r) ==
    IF ~r.ok THEN r
    ELSE With(CharAt(r.s, r.i), LAMBDA c :
        IF IsDigit(c) \/ (r.hex /\ IsHexLetter(c)) THEN [r EXCEPT !.i = @ + 1, !.saw = "0"]
        ELSE IF c = "_" THEN [r EXCEPT !.i = @ + 1, !.saw = "_", !.ok = r.saw = "0"]
        ELSE [r EXCEPT !.i = @ + 1, !.saw = "!", !.ok = r.saw # "_"])

underscoreOK(s) ==
    With(IF Len(s) >= 1 /\ CharAt(s, 1) \in {"+", "-"} THEN SubSeq(s, 2, Len(s)) ELSE s,
         LAMBDA t :
    With(IF Len(t) >= 2 /\ CharAt(t, 1) = "0" /\ Lower(CharAt(t, 2)) \in {"b", "o", "x"}
         THEN [s |-> t, i |-> 3, hex |-> Lower(CharAt(t, 2)) = "x", saw |-> "0", ok |-> TRUE]
         ELSE [s |-> t, i |-> 1, hex |-> FALSE, saw |-> "^", ok |-> TRUE], LAMBDA r0 :
    With(Iterate(underscoreOKByte, r0, Len(r0.s) - r0.i + 1), LAMBDA r :
        r.ok /\ r.saw # "_")))

\* one turn of the mantissa loop of readFloat, over the byte at r.i: ds are
\* the digits after the leading zeros, nd their number, dp the position of
\* the point; stop tells that the loop has ended
mantissaByte(r) ==
    IF r.stop THEN r
    ELSE With(CharAt(r.s, r.i), LAMBDA c :
        IF c = "_" THEN [r EXCEPT !.i = @ + 1, !.underscores = TRUE]
        ELSE IF c = "."
        THEN IF r.sawdot THEN [r EXCEPT !.stop = TRUE]
             ELSE [r EXCEPT !.i = @ + 1, !.sawdot = TRUE, !.dp = r.nd]
        ELSE IF IsDigit(c)
        THEN IF c = "0" /\ r.nd = 0
             THEN [r EXCEPT !.i = @ + 1, !.sawdigits = TRUE, !.dp = @ - 1]
             ELSE [r EXCEPT !.i = @ + 1, !.sawdigits = TRUE, !.nd = @ + 1,
                            !.ds = Append(@, DigitValue(c))]
        ELSE IF r.hex /\ IsHexLetter(c)
        THEN [r EXCEPT !.i = @ + 1, !.sawdigits = TRUE, !.nd = @ + 1,
                       !.ds = Append(@, HexLetterValue(c))]
        ELSE [r EXCEPT !.stop = TRUE])

\* one turn of the exponent loop of readFloat; e stops growing at 10000
exponentByte(r) ==
    IF r.stop THEN r
    ELSE With(CharAt(r.s, r.i), LAMBDA c :
        IF c = "_" THEN [r EXCEPT !.i = @ + 1, !.underscores = TRUE]
        ELSE IF IsDigit(c)
        THEN [r EXCEPT !.i = @ + 1,
                       !.e = IF @ < 10000 THEN @ * 10 + DigitValue(c) ELSE @]
        ELSE [r EXCEPT !.stop = TRUE])

\* readFloat(s): sign, base, digits and exponent; i is the position after
\* the last byte read, ok is false when s does not start with a number
readFloat(s) ==
    LET fail == [ok |-> FALSE, neg |-> FALSE, hex |-> FALSE, ds |-> <<>>, dp |-> 0, i |-> 1]
        neg == Len(s) >= 1 /\ CharAt(s, 1) = "-"
        i0 == IF Len(s) >= 1 /\ CharAt(s, 1) \in {"+", "-"} THEN 2 ELSE 1
        hex == i0 + 2 <= Len(s) /\ CharAt(s, i0) = "0" /\ Lower(CharAt(s, i0 + 1)) = "x"
        expChar == IF hex THEN "p" ELSE "e"
    IN  IF s = "" THEN fail
        ELSE With([s |-> s, hex |-> hex, i |-> IF hex THEN i0 + 2 ELSE i0,
                   sawdot |-> FALSE, sawdigits |-> FALSE, nd |-> 0, dp |-> 0,
                   ds |-> <<>>, underscores |-> FALSE, stop |-> FALSE], LAMBDA m0 :
             With(Iterate(mantissaByte, m0, Len(s) - m0.i + 1), LAMBDA m :
        IF ~m.sawdigits THEN fail
        ELSE With((IF hex THEN 4 ELSE 1) * (IF m.sawdot THEN m.dp ELSE m.nd), LAMBDA dp :
        IF m.i <= Len(s) /\ Lower(CharAt(s, m.i)) = expChar
        THEN With(IF m.i + 1 <= Len(s) /\ CharAt(s, m.i + 1) \in {"+", "-"}
                  THEN m.i + 2 ELSE m.i + 1, LAMBDA j :
             IF j > Len(s) \/ ~IsDigit(CharAt(s, j)) THEN fail
             ELSE With(Iterate(exponentByte,
                               [s |-> s, i |-> j, e |-> 0,
                                underscores |-> m.underscores, stop |-> FALSE],
                               Len(s) - j + 1), LAMBDA x :
                  IF x.underscores /\ ~underscoreOK(SubSeq(s, 1, x.i - 1)) THEN fail
                  ELSE [ok |-> TRUE, neg |-> neg, hex |-> hex, ds |-> m.ds,
                        dp |-> IF CharAt(s, m.i + 1) = "-" THEN dp - x.e ELSE dp + x.e,
                        i |-> x.i]))
        ELSE IF hex THEN fail
        ELSE IF m.underscores /\ ~underscoreOK(SubSeq(s, 1, m.i - 1)) THEN fail
        ELSE [ok |-> TRUE, neg |-> neg, hex |-> hex, ds |-> m.ds, dp |-> dp, i |-> m.i])))

\* atof32, the conversion behind strconv.ParseFloat(s, 32), with the
\* conversion of its result to float32: err is "nil", "ErrSyntax" or
\* "ErrRange"
atof32(s) ==
    With(s, LAMBDA t :
    With(special(t), LAMBDA sp :
        IF sp.ok
        THEN IF sp.n # Len(t) THEN [value |-> ZeroFloat, err |-> "ErrSyntax"]
             ELSE [value |-> sp.value, err |-> "nil"]
        ELSE With(readFloat(t), LAMBDA r :
            IF ~r.ok \/ r.i # Len(t) + 1 THEN [value |-> ZeroFloat, err |-> "ErrSyntax"]
            ELSE IF r.hex THEN HexToFloat(IF r.neg THEN 1 ELSE 0, r.ds, r.dp)
            ELSE DecimalToFloat(IF r.neg THEN 1 ELSE 0, r.ds, r.dp))))

(***************************************************************************)
(* strconv.FormatFloat(f, 'f', -1, 32): the shortest decimal that parses   *)
(* back to f.  A decimal is [d, dp]: the digits d, the last of them not 0, *)
(* standing for 0.d1 d2 ... * 10^dp.                                       *)
(***************************************************************************)
trim(a) ==
    IF LastNot(a.d, 0) = 0 THEN [d |-> <<>>, dp |-> 0]
    ELSE [a EXCEPT !.d = SubSeq(@, 1, LastNot(a.d, 0))]

\* mant * 2^exp2 with the factors 2 of mant taken into a negative exp2
Reduce(mant, exp2) ==
    LET k == CHOOSE j \in 0..(MantBits + 2) :
                 /\ j = 0 \/ j <= 0 - exp2
                 /\ mant % (2 ^ j) = 0
                 /\ j = 0 - exp2 \/ exp2 >= 0 \/ mant % (2 ^ (j + 1)) # 0
    IN  [mant |-> mant \div (2 ^ k), exp2 |-> exp2 + k]

\* the decimal that is exactly mant * 2^exp2, for mant > 0: the digits of
\* mant * 2^exp2, or those of mant * 5^-exp2 taken exp2 places down; by the
\* integers of the model when the product is below 10^9
ExactDecimal(mant, exp2) ==
    With(Reduce(mant, exp2), LAMBDA r :
    With(IF r.exp2 >= 0 /\ r.exp2 < 30 /\ r.mant < 10 ^ 9 \div 2 ^ r.exp2
         THEN IntDigits(r.mant * 2 ^ r.exp2)
         ELSE IF r.exp2 < 0 /\ r.exp2 > 0 - 13 /\ r.mant < 10 ^ 9 \div 5 ^ (0 - r.exp2)
         THEN IntDigits(r.mant * 5 ^ (0 - r.exp2))
         ELSE IF r.exp2 >= 0 THEN BigDigits(BigMulPow(BigFromInt(r.mant), 2, r.exp2))
         ELSE BigDigits(BigMulPow(BigFromInt(r.mant), 5, 0 - r.exp2)), LAMBDA ds :
        trim([d |-> ds, dp |-> Len(ds) + (IF r.exp2 < 0 THEN r.exp2 ELSE 0)])))

\* decimal.RoundDown, RoundUp and Round to nd digits
RoundDown(a, nd) ==
    IF nd < 0 \/ nd >= Len(a.d) THEN a
    ELSE trim([a EXCEPT !.d = SubSeq(@, 1, nd)])

RoundUp(a, nd) ==
    IF nd < 0 \/ nd >= Len(a.d) THEN a
    ELSE IF \E i \in 1..nd : a.d[i] < 9
    THEN LET i == CHOOSE k \in 1..nd : a.d[k] < 9 /\ \A j \in (k + 1)..nd : a.d[j] = 9
         IN  [a EXCEPT !.d = Append(SubSeq(@, 1, i - 1), a.d[i] + 1)]
    ELSE [d |-> <<1>>, dp |-> a.dp + 1]

shouldRoundUp(a, nd) ==
    IF nd < 0 \/ nd >= Len(a.d) THEN FALSE
    ELSE IF a.d[nd + 1] = 5 /\ nd + 1 = Len(a.d)
    THEN nd > 0 /\ a.d[nd] % 2 # 0
    ELSE a.d[nd + 1] >= 5

Round(a, nd) ==
    IF nd < 0 \/ nd >= Len(a.d) THEN a
    ELSE IF shouldRoundUp(a, nd) THEN RoundUp(a, nd)
    ELSE RoundDown(a, nd)

\* one turn of the loop of roundShortest, over the digit position ui of
\* upper: d is cut at the first position at which, rounded down or up, it
\* lies between lower and upper
roundShortestDigit(s) ==
    LET mi == s.ui - s.upper.dp + s.d.dp
        li == s.ui - s.upper.dp + s.lower.dp
        l == IF li >= 0 /\ li < Len(s.lower.d) THEN s.lower.d[li + 1] ELSE 0
        m == IF mi >= 0 THEN s.d.d[mi + 1] ELSE 0
        u == IF s.ui < Len(s.upper.d) THEN s.upper.d[s.ui + 1] ELSE 0
        okdown == l # m \/ (s.inclusive /\ li + 1 = Len(s.lower.d))
        delta == IF s.upperdelta = 0 /\ m + 1 < u THEN 2
                 ELSE IF s.upperdelta = 0 /\ m # u THEN 1
                 ELSE IF s.upperdelta = 1 /\ (m # 9 \/ u # 0) THEN 2
                 ELSE s.upperdelta
        okup == delta > 0 /\ (s.inclusive \/ delta > 1 \/ s.ui + 1 < Len(s.upper.d))
    IN  IF s.done THEN s
        ELSE IF mi >= Len(s.d.d) THEN [s EXCEPT !.done = TRUE]
        ELSE IF okdown /\ okup THEN [s EXCEPT !.done = TRUE, !.d = Round(@, mi + 1)]
        ELSE IF okdown THEN [s EXCEPT !.done = TRUE, !.d = RoundDown(@, mi + 1)]
        ELSE IF okup THEN [s EXCEPT !.done = TRUE, !.d = RoundUp(@, mi + 1)]
        ELSE [s EXCEPT !.ui = @ + 1, !.upperdelta = delta]

\* roundShortest: the shortest decimal that rounds to mant * 2^exp2.  upper
\* and lower are halfway to the next float32 above and below.
roundShortest(mant, exp2) ==
    With(ExactDecimal(mant, exp2), LAMBDA d :
        IF exp2 > MinExp2 /\ 332 * (d.dp - Len(d.d)) >= 100 * exp2 THEN d
        ELSE With([d |-> d,
                   upper |-> ExactDecimal(mant * 2 + 1, exp2 - 1),
                   lower |-> IF mant > ImplicitBit \/ exp2 = MinExp2
                             THEN ExactDecimal((mant - 1) * 2 + 1, exp2 - 1)
                             ELSE ExactDecimal((mant * 2 - 1) * 2 + 1, exp2 - 2),
                   inclusive |-> mant % 2 = 0, ui |-> 0, upperdelta |-> 0,
                   done |-> FALSE], LAMBDA s0 :
             Iterate(roundShortestDigit, s0, Len(s0.d.d) + 2).d))

\* the characters of the digits lo to hi of ds
RECURSIVE DigitString(_, _, _)
DigitString(ds, lo, hi) ==
    IF lo > hi THEN ""
    ELSE IF lo = hi THEN Digits[ds[lo] + 1]
    ELSE DigitString(ds, lo, (lo + hi) \div 2) \o DigitString(ds, ((lo + hi) \div 2) + 1, hi)

RECURSIVE Zeros(_)
Zeros(n) ==
    IF n <= 0 THEN ""
    ELSE IF n % 2 = 1 THEN "0" \o Zeros(n - 1)
    ELSE With(Zeros(n \div 2), LAMBDA z : z \o z)

\* fmtF: %f of the decimal a with as many fraction digits as a has
fmtF(neg, a) ==
    LET nd == Len(a.d)
        m == IF nd < a.dp THEN nd ELSE a.dp
    IN  (IF neg THEN "-" ELSE "")
        \o (IF a.dp > 0 THEN DigitString(a.d, 1, m) \o Zeros(a.dp - m)
            ELSE "0")
        \o (IF nd - a.dp > 0
            THEN "." \o Zeros(0 - a.dp)
                 \o DigitString(a.d, (IF a.dp > 0 THEN a.dp ELSE 0) + 1, nd)
            ELSE "")

\* genericFtoa, the conversion behind strconv.FormatFloat(f, 'f', -1, 32)
genericFtoa(f) ==
    IF f.exp = ExpSpecial
    THEN IF f.frac # 0 THEN "NaN" ELSE IF f.sign = 1 THEN "-Inf" ELSE "+Inf"
    ELSE IF f.exp = 0 /\ f.frac = 0 THEN fmtF(f.sign = 1, [d |-> <<>>, dp |-> 0])
    ELSE IF f.exp = 0 THEN fmtF(f.sign = 1, roundShortest(f.frac, MinExp2))
    ELSE fmtF(f.sign = 1, roundShortest(f.frac + ImplicitBit, f.exp - 1 + MinExp2))

\* float32(v) of an integer 0 <= v < 2^24
Float32OfInt(v) ==
    IF v = 0 THEN ZeroFloat
    ELSE LET k == CHOOSE j \in 0..MantBits :
                      ImplicitBit <= v * 2 ^ j /\ v * 2 ^ j < MantLimit
         IN  Float32(0, 1 - k - MinExp2, v * 2 ^ k - ImplicitBit)

(***************************************************************************)
(* The two conversions as the code calls them.  Their results for the      *)
(* durations of the sample playlists are computed once and looked up; any  *)
(* other argument is converted on the spot, so both are atof32 and         *)
(* genericFtoa on every argument.                                          *)
(***************************************************************************)
\* the durations written in the sample playlists
DurationSamples == <<"4.50", "3", "0.25">>

FormatFloatSamples ==
    [f \in {atof32(DurationSamples[i]).value : i \in DOMAIN DurationSamples}
        |-> genericFtoa(f)]

\* the sample durations as written and as Manifest.String renders them
ParseFloatSamples ==
    [s \in {DurationSamples[i] : i \in DOMAIN DurationSamples}
            \cup {FormatFloatSamples[f] : f \in DOMAIN FormatFloatSamples}
        |-> atof32(s)]

\* strconv.ParseFloat(s, 32)
ParseFloat(s) ==
    IF s \in DOMAIN ParseFloatSamples THEN ParseFloatSamples[s] ELSE atof32(s)

\* strconv.FormatFloat(f, 'f', -1, 32)
FormatFloat(f) ==
    IF f \in DOMAIN FormatFloatSamples THEN FormatFloatSamples[f] ELSE genericFtoa(f)

(***************************************************************************)
(* The data model (manifest.go).                                           *)
(***************************************************************************)
\* Segment{}: manifest.go:142-146
ZeroSegment == [Path |-> "", Duration |-> ZeroFloat, Title |-> ""]

\* SegmentGroup{}: manifest.go:84-87
ZeroSegmentGroup == [Segments |-> <<>>]

\* Manifest{}: manifest.go:6-13
ZeroManifest ==
    [Version               |-> 0,
     TargetDuration        |-> 0,
     MediaSequence         |-> ZeroUint32,
     DiscontinuitySequence |-> ZeroUint32,
     HasEndList            |-> FALSE,
     SegmentGroups         |-> <<>>]

\* Manifest.SegmentCount
RECURSIVE SumLen(_)
SumLen(groups) ==
    IF groups = <<>> THEN 0
    ELSE Len(groups[1].Segments) + SumLen(Tail(groups))

SegmentCount(m) == SumLen(m.SegmentGroups)

(***************************************************************************)
(* The parser (ParseHlsManifest and its helpers).                          *)
(***************************************************************************)
DeclarationField == "#EXTM3U"
VersionField == "#EXT-X-VERSION"
TargetDurationField == "#EXT-X-TARGETDURATION"
MediaSequenceField == "#EXT-X-MEDIA-SEQUENCE"
DiscontinuitySequenceField == "#EXT-X-DISCONTINUITY-SEQUENCE"
SegmentField == "#EXTINF"
DiscontinuityField == "#EXT-DISCONTINUITY"
EndListField == "#EXT-X-ENDLIST"

\* a nil error
NoError == [Field |-> "", Line |-> 0, Err |-> "nil"]

\* the ParseError constructors
declarationError == [Field |-> DeclarationField, Line |-> 1, Err |-> "ErrRequiredFieldMissing"]
fieldError(field, line, err) == [Field |-> field, Line |-> line, Err |-> err]
valueError(field, line) == [Field |-> field, Line |-> line, Err |-> "ErrFieldRequireValue"]
invalidFieldError(field, line) == [Field |-> field, Line |-> line, Err |-> "ErrInvalidField"]
segmentPathError(line) == [Field |-> SegmentField, Line |-> line, Err |-> "ErrSegmentPathMissing"]

\* getValue: what follows the first ":" of the line, "" without one
getValue(line) ==
    With(Cut(line, ":"), LAMBDA c : IF ~c.found THEN "" ELSE c.after)

\* parseUintValue
parseUintValue(field, line, lineNumber, bitSize) ==
    With(getValue(line), LAMBDA value :
        IF value = "" THEN [value |-> ZeroUint32, err |-> valueError(field, lineNumber)]
        ELSE With(ParseUint(value, bitSize), LAMBDA r :
                 IF r.err # "nil"
                 THEN [value |-> ZeroUint32, err |-> fieldError(field, lineNumber, r.err)]
                 ELSE [value |-> r.value, err |-> NoError]))

\* The state carried through the loop of ParseHlsManifest.  The two nilable
\* pointers are sequences of length 0 (nil) or 1; done is set by a return
\* or by the break at the end marker.
ParseStart ==
    [manifest         |-> ZeroManifest,
     tempSegmentGroup |-> <<>>,
     tempSegment      |-> <<>>,
     err              |-> NoError,
     done             |-> FALSE]

Fail(st, e) == [st EXCEPT !.err = e, !.done = TRUE]

\* a metadata line: parseUintValue, then the field set by Set, lines 147-174
ParseUintField(st, field, line, lineNumber, bitSize, Set(_, _)) ==
    With(parseUintValue(field, line, lineNumber, bitSize), LAMBDA r :
        IF r.err # NoError THEN Fail(st, r.err) ELSE Set(st, r.value))

\* a segment-info line without the check of lines 180-182: a pending segment
\* is overwritten
ParseSegmentInfoOverwrite(st, line, lineNumber) ==
    With(Cut(getValue(line), ","), LAMBDA c :
        IF ~c.found
        THEN Fail([st EXCEPT !.tempSegment = <<ZeroSegment>>],
                  valueError(SegmentField, lineNumber))
        ELSE With(ParseFloat(c.before), LAMBDA f :
            IF f.err # "nil"
            THEN Fail([st EXCEPT !.tempSegment = <<ZeroSegment>>],
                      fieldError(SegmentField, lineNumber, f.err))
            ELSE [st EXCEPT !.tempSegment =
                      <<[Path |-> "", Duration |-> f.value, Title |-> c.after]>>]))

\* a segment-info line, lines 175-197; st has the pending group allocated
ParseSegmentInfo(st, line, lineNumber) ==
    IF st.tempSegment # <<>> THEN Fail(st, segmentPathError(lineNumber))
    ELSE With(Cut(getValue(line), ","), LAMBDA c :
        IF ~c.found
        THEN Fail([st EXCEPT !.tempSegment = <<ZeroSegment>>],
                  valueError(SegmentField, lineNumber))
        ELSE With(ParseFloat(c.before), LAMBDA f :
            IF f.err # "nil"
            THEN Fail([st EXCEPT !.tempSegment = <<ZeroSegment>>],
                      fieldError(SegmentField, lineNumber, f.err))
            ELSE [st EXCEPT !.tempSegment =
                      <<[Path |-> "", Duration |-> f.value, Title |-> c.after]>>]))

\* one iteration of the loop body, ParseHlsManifest lines 145-215
ParseLine(st, line, lineNumber) ==
    IF HasPrefix(line, VersionField) THEN
        ParseUintField(st, VersionField, line, lineNumber, 8,
            LAMBDA s, v : [s EXCEPT !.manifest.Version = v.lo])
    ELSE IF HasPrefix(line, TargetDurationField) THEN
        ParseUintField(st, TargetDurationField, line, lineNumber, 8,
            LAMBDA s, v : [s EXCEPT !.manifest.TargetDuration = v.lo])
    ELSE IF HasPrefix(line, MediaSequenceField) THEN
        ParseUintField(st, MediaSequenceField, line, lineNumber, 32,
            LAMBDA s, v : [s EXCEPT !.manifest.MediaSequence = v])
    ELSE IF HasPrefix(line, DiscontinuitySequenceField) THEN
        ParseUintField(st, DiscontinuitySequenceField, line, lineNumber, 32,
            LAMBDA s, v : [s EXCEPT !.manifest.DiscontinuitySequence = v])
    ELSE IF HasPrefix(line, SegmentField) THEN
        ParseSegmentInfo(
            IF st.tempSegmentGroup = <<>>
            THEN [st EXCEPT !.tempSegmentGroup = <<ZeroSegmentGroup>>] ELSE st,
            line, lineNumber)
    ELSE IF HasPrefix(line, DiscontinuityField) THEN
        [st EXCEPT !.manifest.SegmentGroups =
                       IF st.tempSegmentGroup # <<>>
                       THEN Append(@, st.tempSegmentGroup[1]) ELSE @,
                   !.tempSegmentGroup = <<>>]
    ELSE IF HasPrefix(line, EndListField) THEN
        [st EXCEPT !.manifest.HasEndList = TRUE, !.done = TRUE]
    ELSE IF st.tempSegment # <<>> /\ st.tempSegmentGroup # <<>> THEN
        [st EXCEPT !.tempSegmentGroup =
                       <<[Segments |-> Append(st.tempSegmentGroup[1].Segments,
                                              [st.tempSegment[1] EXCEPT !.Path = line])]>>,
                   !.tempSegment = <<>>]
    ELSE Fail(st, invalidFieldError(line, lineNumber))

\* the loop of ParseHlsManifest over lines[1:]: i is the 0-based index,
\* lineNumber is i + 2
RECURSIVE ParseLoop(_, _, _)
ParseLoop(st, lines, i) ==
    IF st.done \/ i >= Len(lines) THEN st
    ELSE With(ParseLine(st, lines[i + 1], i + 2),
              LAMBDA s : ParseLoop(s, lines, i + 1))

\* the end of ParseHlsManifest without lines 222-224: the group pending at
\* the end is not appended
ParseEndDropPending(st, lines) ==
    IF st.err # NoError THEN [manifest |-> st.manifest, err |-> st.err]
    ELSE IF st.tempSegment # <<>>
    THEN [manifest |-> st.manifest, err |-> segmentPathError(Len(lines) + 1)]
    ELSE [manifest |-> st.manifest, err |-> NoError]

\* after the loop, lines 218-226
ParseEnd(st, lines) ==
    IF st.err # NoError THEN [manifest |-> st.manifest, err |-> st.err]
    ELSE IF st.tempSegment # <<>>
    THEN [manifest |-> st.manifest, err |-> segmentPathError(Len(lines) + 1)]
    ELSE [manifest |->
              IF st.tempSegmentGroup # <<>>
              THEN [st.manifest EXCEPT !.SegmentGroups = Append(@, st.tempSegmentGroup[1])]
              ELSE st.manifest,
          err |-> NoError]

\* ParseHlsManifest: the manifest and the error returned
ParseHlsManifest(data) ==
    With(Split(data), LAMBDA all :
        IF all[1] # DeclarationField
        THEN [manifest |-> ZeroManifest, err |-> declarationError]
        ELSE With(Tail(all), LAMBDA lines :
                 With(ParseLoop(ParseStart, lines, 0),
                      LAMBDA st : ParseEnd(st, lines))))

(***************************************************************************)
(* The serializer (Manifest.String).                                       *)
(***************************************************************************)
\* the two lines of one segment, lines 241-242
SegmentString(segment) ==
    SegmentField \o ":" \o FormatFloat(segment.Duration) \o "," \o segment.Title \o "\n"
    \o segment.Path \o "\n"

RECURSIVE SegmentsString(_)
SegmentsString(segments) ==
    IF segments = <<>> THEN ""
    ELSE SegmentString(segments[1]) \o SegmentsString(Tail(segments))

\* the groups from index i on, a discontinuity marker after every group but
\* the last, lines 239-248
RECURSIVE GroupsString(_, _)
GroupsString(groups, i) ==
    IF i > Len(groups) THEN ""
    ELSE SegmentsString(groups[i].Segments)
         \o (IF i - 1 < Len(groups) - 1 THEN DiscontinuityField \o "\n" ELSE "")
         \o GroupsString(groups, i + 1)

\* Manifest.String.  TargetDuration is a uint8 converted to a float and
\* formatted as one
String(m) ==
    DeclarationField \o "\n"
    \o VersionField \o ":" \o FormatInt(m.Version) \o "\n"
    \o TargetDurationField \o ":" \o FormatFloat(Float32OfInt(m.TargetDuration)) \o "\n"
    \o MediaSequenceField \o ":" \o FormatUint(m.MediaSequence) \o "\n"
    \o DiscontinuitySequenceField \o ":" \o FormatUint(m.DiscontinuitySequence) \o "\n"
    \o GroupsString(m.SegmentGroups, 1)
    \o (IF m.HasEndList THEN EndListField \o "\n" ELSE "")

(***************************************************************************)
(* The merger (Manifest.Merge, Manifest.IsCompatible).                     *)
(***************************************************************************)
\* Merge with the version branch not raising the flag (line 13 left out)
MergeFlagDurationOnly(m, m2) ==
    [m   |-> [m EXCEPT
                !.TargetDuration = IF m.TargetDuration < m2.TargetDuration
                                   THEN m2.TargetDuration ELSE @,
                !.Version        = IF m.Version < m2.Version THEN m2.Version ELSE @,
                !.SegmentGroups  = @ \o m2.SegmentGroups],
     hasBreakingChange |-> m.TargetDuration < m2.TargetDuration]

\* Merge with the arguments of append swapped (line 16)
MergePrepend(m, m2) ==
    [m   |-> [m EXCEPT
                !.TargetDuration = IF m.TargetDuration < m2.TargetDuration
                                   THEN m2.TargetDuration ELSE @,
                !.Version        = IF m.Version < m2.Version THEN m2.Version ELSE @,
                !.SegmentGroups  = m2.SegmentGroups \o @],
     hasBreakingChange |-> m.TargetDuration < m2.TargetDuration \/ m.Version < m2.Version]

\* Merge counting the join as a discontinuity
MergeCountJoin(m, m2) ==
    [m   |-> [m EXCEPT
                !.TargetDuration = IF m.TargetDuration < m2.TargetDuration
                                   THEN m2.TargetDuration ELSE @,
                !.Version        = IF m.Version < m2.Version THEN m2.Version ELSE @,
                !.DiscontinuitySequence = AddUint32(@, 1),
                !.SegmentGroups  = @ \o m2.SegmentGroups],
     hasBreakingChange |-> m.TargetDuration < m2.TargetDuration \/ m.Version < m2.Version]

\* Merge reporting the change but leaving the target duration as it was
\* (line 7 left out)
MergeKeepDuration(m, m2) ==
    [m   |-> [m EXCEPT
                !.Version        = IF m.Version < m2.Version THEN m2.Version ELSE @,
                !.SegmentGroups  = @ \o m2.SegmentGroups],
     hasBreakingChange |-> m.TargetDuration < m2.TargetDuration \/ m.Version < m2.Version]

\* Manifest.Merge(m2): the receiver afterwards and the value returned
Merge(m, m2) ==
    LET raiseDuration == m.TargetDuration < m2.TargetDuration
        raiseVersion  == m.Version < m2.Version
    IN  [m   |-> [m EXCEPT
                    !.TargetDuration = IF raiseDuration THEN m2.TargetDuration ELSE @,
                    !.Version        = IF raiseVersion THEN m2.Version ELSE @,
                    !.SegmentGroups  = @ \o m2.SegmentGroups],
         hasBreakingChange |-> raiseDuration \/ raiseVersion]

\* IsCompatible with > for >= on the target duration (line 22)
IsCompatibleStrict(m, m2) ==
    m.Version >= m2.Version /\ m.TargetDuration > m2.TargetDuration

\* Manifest.IsCompatible(m2)
IsCompatible(m, m2) ==
    m.Version >= m2.Version /\ m.TargetDuration >= m2.TargetDuration

(***************************************************************************)
(* The count manipulator (count_manipulator.go).                           *)
(***************************************************************************)
\* SegmentGroup.RemoveFromStart(n): the group afterwards and the count removed
GroupRemoveFromStart(g, n) ==
    IF n <= 0 THEN [group |-> g, removed |-> 0]
    ELSE IF n >= Len(g.Segments)
    THEN [group |-> [g EXCEPT !.Segments = <<>>], removed |-> Len(g.Segments)]
    ELSE [group   |-> [g EXCEPT !.Segments = SubSeq(@, n + 1, Len(@))],
          removed |-> n]

\* SegmentGroup.RemoveFromEnd(n)
GroupRemoveFromEnd(g, n) ==
    IF n <= 0 THEN [group |-> g, removed |-> 0]
    ELSE IF n >= Len(g.Segments)
    THEN [group |-> [g EXCEPT !.Segments = <<>>], removed |-> Len(g.Segments)]
    ELSE [group   |-> [g EXCEPT !.Segments = SubSeq(@, 1, Len(@) - n)],
          removed |-> n]

\* the locals with the budget taken in absolute value: a negative count
\* removes segments
RemoveStartAbs(m, n) ==
    [m |-> m, n |-> IF n < 0 THEN 0 - n ELSE n, newGroups |-> <<>>,
     segmentsRemoved |-> 0, segmentsGroupRemoved |-> 0]

\* the locals of Manifest.RemoveFromStart / RemoveFromEnd before the loop;
\* m carries the counters the loop updates through the receiver
RemoveStart(m, n) ==
    [m |-> m, n |-> n, newGroups |-> <<>>,
     segmentsRemoved |-> 0, segmentsGroupRemoved |-> 0]

\* the loop body without n -= removed (line 19 left out)
RemoveFromStartStepNoBudget(st, group) ==
    IF st.n <= 0 THEN [st EXCEPT !.newGroups = Append(@, group)]
    ELSE With(GroupRemoveFromStart(group, st.n), LAMBDA r :
        IF Len(r.group.Segments) = 0
        THEN [st EXCEPT
                !.segmentsRemoved = @ + r.removed,
                !.m.DiscontinuitySequence = AddUint32(@, 1),
                !.m.MediaSequence = AddUint32(@, r.removed),
                !.segmentsGroupRemoved = @ + 1]
        ELSE [st EXCEPT
                !.segmentsRemoved = @ + r.removed,
                !.newGroups = Append(@, r.group),
                !.m.MediaSequence = AddUint32(@, r.removed)])

\* the loop body without the media sequence update for a group that
\* survives (line 29 left out)
RemoveFromStartStepNoPartial(st, group) ==
    IF st.n <= 0 THEN [st EXCEPT !.newGroups = Append(@, group)]
    ELSE With(GroupRemoveFromStart(group, st.n), LAMBDA r :
        IF Len(r.group.Segments) = 0
        THEN [st EXCEPT
                !.segmentsRemoved = @ + r.removed,
                !.n = @ - r.removed,
                !.m.DiscontinuitySequence = AddUint32(@, 1),
                !.m.MediaSequence = AddUint32(@, r.removed),
                !.segmentsGroupRemoved = @ + 1]
        ELSE [st EXCEPT
                !.segmentsRemoved = @ + r.removed,
                !.n = @ - r.removed,
                !.newGroups = Append(@, r.group)])

\* the loop body counting every group it removed from as a removed group
\* (lines 21-22 also for a group that survives)
RemoveFromStartStepCountTouched(st, group) ==
    IF st.n <= 0 THEN [st EXCEPT !.newGroups = Append(@, group)]
    ELSE With(GroupRemoveFromStart(group, st.n), LAMBDA r :
        IF Len(r.group.Segments) = 0
        THEN [st EXCEPT
                !.segmentsRemoved = @ + r.removed,
                !.n = @ - r.removed,
                !.m.DiscontinuitySequence = AddUint32(@, 1),
                !.m.MediaSequence = AddUint32(@, r.removed),
                !.segmentsGroupRemoved = @ + 1]
        ELSE [st EXCEPT
                !.segmentsRemoved = @ + r.removed,
                !.n = @ - r.removed,
                !.newGroups = Append(@, r.group),
                !.m.DiscontinuitySequence = AddUint32(@, 1),
                !.m.MediaSequence = AddUint32(@, r.removed),
                !.segmentsGroupRemoved = @ + 1])

\* one iteration of the loop of Manifest.RemoveFromStart, lines 11-30
RemoveFromStartStep(st, group) ==
    IF st.n <= 0 THEN [st EXCEPT !.newGroups = Append(@, group)]
    ELSE With(GroupRemoveFromStart(group, st.n), LAMBDA r :
        IF Len(r.group.Segments) = 0
        THEN [st EXCEPT
                !.segmentsRemoved = @ + r.removed,
                !.n = @ - r.removed,
                !.m.DiscontinuitySequence = AddUint32(@, 1),
                !.m.MediaSequence = AddUint32(@, r.removed),
                !.segmentsGroupRemoved = @ + 1]
        ELSE [st EXCEPT
                !.segmentsRemoved = @ + r.removed,
                !.n = @ - r.removed,
                !.newGroups = Append(@, r.group),
                !.m.MediaSequence = AddUint32(@, r.removed)])

RECURSIVE RemoveFromStartLoop(_, _, _)
RemoveFromStartLoop(st, groups, i) ==
    IF i > Len(groups) THEN st
    ELSE With(RemoveFromStartStep(st, groups[i]),
              LAMBDA s : RemoveFromStartLoop(s, groups, i + 1))

\* Manifest.RemoveFromStart(n): the receiver afterwards and the two counts
\* returned
RemoveFromStart(m, n) ==
    With(RemoveFromStartLoop(RemoveStart(m, n), m.SegmentGroups, 1), LAMBDA st :
        [m |-> [st.m EXCEPT !.SegmentGroups = st.newGroups],
         segmentsGroupRemoved |-> st.segmentsGroupRemoved,
         segmentsRemoved      |-> st.segmentsRemoved])

\* the loop body appending the kept groups instead of prepending them
\* (lines 44 and 58 as in RemoveFromStart)
RemoveFromEndStepAppend(st, group) ==
    IF st.n <= 0 THEN [st EXCEPT !.newGroups = Append(@, group)]
    ELSE With(GroupRemoveFromEnd(group, st.n), LAMBDA r :
        IF Len(r.group.Segments) = 0
        THEN [st EXCEPT
                !.segmentsRemoved = @ + r.removed,
                !.n = @ - r.removed,
                !.segmentsGroupRemoved = @ + 1,
                !.m.DiscontinuitySequence = AddUint32(@, 1)]
        ELSE [st EXCEPT
                !.segmentsRemoved = @ + r.removed,
                !.n = @ - r.removed,
                !.newGroups = Append(@, r.group)])

\* the loop body without the continue of line 55: an emptied group is kept
RemoveFromEndStepKeepEmpty(st, group) ==
    IF st.n <= 0 THEN [st EXCEPT !.newGroups = <<group>> \o @]
    ELSE With(GroupRemoveFromEnd(group, st.n), LAMBDA r :
        IF Len(r.group.Segments) = 0
        THEN [st EXCEPT
                !.segmentsRemoved = @ + r.removed,
                !.n = @ - r.removed,
                !.segmentsGroupRemoved = @ + 1,
                !.m.DiscontinuitySequence = AddUint32(@, 1),
                !.newGroups = <<r.group>> \o @]
        ELSE [st EXCEPT
                !.segmentsRemoved = @ + r.removed,
                !.n = @ - r.removed,
                !.newGroups = <<r.group>> \o @])

\* one iteration of the loop of Manifest.RemoveFromEnd, lines 42-59
RemoveFromEndStep(st, group) ==
    IF st.n <= 0 THEN [st EXCEPT !.newGroups = <<group>> \o @]
    ELSE With(GroupRemoveFromEnd(group, st.n), LAMBDA r :
        IF Len(r.group.Segments) = 0
        THEN [st EXCEPT
                !.segmentsRemoved = @ + r.removed,
                !.n = @ - r.removed,
                !.segmentsGroupRemoved = @ + 1,
                !.m.DiscontinuitySequence = AddUint32(@, 1)]
        ELSE [st EXCEPT
                !.segmentsRemoved = @ + r.removed,
                !.n = @ - r.removed,
                !.newGroups = <<r.group>> \o @])

\* slices.Backward: from the last group to the first
RECURSIVE RemoveFromEndLoop(_, _, _)
RemoveFromEndLoop(st, groups, i) ==
    IF i < 1 THEN st
    ELSE With(RemoveFromEndStep(st, groups[i]),
              LAMBDA s : RemoveFromEndLoop(s, groups, i - 1))

\* RemoveFromEnd adding the count of groups, not of segments, to the media
\* sequence (line 62 with the wrong counter)
RemoveFromEndAddGroups(m, n) ==
    With(RemoveFromEndLoop(RemoveStart(m, n), m.SegmentGroups, Len(m.SegmentGroups)),
         LAMBDA st :
        [m |-> [st.m EXCEPT !.SegmentGroups = st.newGroups,
                            !.MediaSequence = AddUint32(@, st.segmentsGroupRemoved)],
         segmentsGroupRemoved |-> st.segmentsGroupRemoved,
         segmentsRemoved      |-> st.segmentsRemoved])

\* RemoveFromEnd adding the requested count, not the removed one, to the
\* media sequence (line 62 with n)
RemoveFromEndAddRequested(m, n) ==
    With(RemoveFromEndLoop(RemoveStart(m, n), m.SegmentGroups, Len(m.SegmentGroups)),
         LAMBDA st :
        [m |-> [st.m EXCEPT !.SegmentGroups = st.newGroups,
                            !.MediaSequence = AddUint32(@, IF n > 0 THEN n ELSE 0)],
         segmentsGroupRemoved |-> st.segmentsGroupRemoved,
         segmentsRemoved      |-> st.segmentsRemoved])

\* Manifest.RemoveFromEnd(n)
RemoveFromEnd(m, n) ==
    With(RemoveFromEndLoop(RemoveStart(m, n), m.SegmentGroups, Len(m.SegmentGroups)),
         LAMBDA st :
        [m |-> [st.m EXCEPT !.SegmentGroups = st.newGroups,
                            !.MediaSequence = AddUint32(@, st.segmentsRemoved)],
         segmentsGroupRemoved |-> st.segmentsGroupRemoved,
         segmentsRemoved      |-> st.segmentsRemoved])

(***************************************************************************)
(* Input playlists.  The texts handed to ParseHlsManifest are built from   *)
(* header samples and every shape (sizes of the groups) of at most two     *)
(* groups within the bound.                                                *)
(* Numerals come in canonical and non-canonical spellings ("03", "4.50"),  *)
(* counters include the largest uint32, titles include the separators.     *)
(***************************************************************************)
HeaderSamples ==
    {[version |-> "3",  targetDuration |-> "4", mediaSequence |-> "0",
      discontinuitySequence |-> "0", endList |-> TRUE],
     [version |-> "03", targetDuration |-> "8", mediaSequence |-> "4294967295",
      discontinuitySequence |-> "4294967295", endList |-> FALSE]}

TitleSamples == <<"", "a,b:c">>

\* the two lines of the k-th segment (k from 0) of a playlist
SegmentLines(prefix, k) ==
    <<SegmentField \o ":" \o DurationSamples[(k % 3) + 1] \o ","
          \o TitleSamples[(k % 2) + 1],
      prefix \o FormatInt(k) \o ".ts">>

RECURSIVE GroupLines(_, _, _)
GroupLines(prefix, k, size) ==
    IF size = 0 THEN <<>>
    ELSE SegmentLines(prefix, k) \o GroupLines(prefix, k + 1, size - 1)

\* the lines of the groups of sizes shape[i..], a discontinuity marker
\* between two groups
RECURSIVE ShapeLines(_, _, _, _)
ShapeLines(prefix, shape, i, k) ==
    IF i > Len(shape) THEN <<>>
    ELSE GroupLines(prefix, k, shape[i])
         \o (IF i < Len(shape) THEN <<DiscontinuityField>> ELSE <<>>)
         \o ShapeLines(prefix, shape, i + 1, k + shape[i])

PlaylistLines(h, shape, prefix) ==
    <<DeclarationField,
      VersionField \o ":" \o h.version,
      TargetDurationField \o ":" \o h.targetDuration,
      MediaSequenceField \o ":" \o h.mediaSequence,
      DiscontinuitySequenceField \o ":" \o h.discontinuitySequence>>
    \o ShapeLines(prefix, shape, 1, 0)
    \o (IF h.endList THEN <<EndListField>> ELSE <<>>)

\* strings.Join(lines, "\n")
RECURSIVE Join(_)
Join(lines) ==
    IF Len(lines) = 0 THEN ""
    ELSE IF Len(lines) = 1 THEN lines[1]
    ELSE lines[1] \o "\n" \o Join(Tail(lines))

\* The sizes of the groups of a base playlist: no group, one group, or two
\* groups with a discontinuity marker between them.  Manifests of more
\* groups are built by Merge.
Shapes ==
    {<<>>}
    \cup {<<a>> : a \in 1..MaxGroupLen}
    \cup {<<a, b>> : a \in 1..MaxGroupLen, b \in 1..MaxGroupLen}

\* The base playlists: a file whose last line ends with a line break, and,
\* for a playlist without end marker, also the text without it.
Texts ==
    {Join(PlaylistLines(h, shape, "")) \o "\n" : h \in HeaderSamples, shape \in Shapes}
    \cup {Join(PlaylistLines(h, shape, "")) :
              h \in {x \in HeaderSamples : ~x.endList}, shape \in Shapes}

\* The playlists merged into the base or compared with it (readManifest on
\* a second file, string_test.go:10-23): a header and a shape each.
OtherSamples ==
    {[header |-> [version |-> "3", targetDuration |-> "4", mediaSequence |-> "0",
                  discontinuitySequence |-> "0", endList |-> TRUE],
      shape  |-> <<2, 1>>],
     [header |-> [version |-> "3", targetDuration |-> "8", mediaSequence |-> "5",
                  discontinuitySequence |-> "1", endList |-> TRUE],
      shape  |-> <<1>>],
     [header |-> [version |-> "4", targetDuration |-> "4", mediaSequence |-> "0",
                  discontinuitySequence |-> "0", endList |-> FALSE],
      shape  |-> <<>>],
     [header |-> [version |-> "2", targetDuration |-> "9", mediaSequence |-> "0",
                  discontinuitySequence |-> "0", endList |-> TRUE],
      shape  |-> <<1, 1>>]}
OtherTexts ==
    {Join(PlaylistLines(o.header, o.shape, "o")) \o (IF o.header.endList THEN "\n" ELSE "") :
         o \in OtherSamples}
Others ==
    {r.manifest : r \in {x \in {ParseHlsManifest(t) : t \in OtherTexts} : x.err = NoError}}

(***************************************************************************)
(* The state machine: a base manifest is parsed from data, then merged,    *)
(* compared, trimmed (as a whole or one group of it) and rendered, at most *)
(* MaxCalls times.                                                         *)
(***************************************************************************)
VARIABLES
    file,        \* the text read from the playlist file
    pc,          \* "new", "ready" (parsed) or "failed" (the parse failed)
    base,        \* the base manifest, receiver of the calls
    parseErr,    \* the error ParseHlsManifest returned for file
    parsed,      \* the manifest as ParseHlsManifest returned it
    calls,       \* calls made on base since it was parsed
    op,          \* the last call: its name,
    arg,         \*   its count n,
    index,       \*   the group it was called on (from 1; 0: on the manifest),
    other,       \*   its manifest argument,
    pre,         \*   the base manifest right before it,
    ret,         \*   and what it returned
    rendered,    \* the result of the last testToString
    headRemoved, \* segments Manifest.RemoveFromStart reported removed, in total
    called       \* the names of the calls made on base since it was parsed

vars == <<file, pc, base, parseErr, parsed, calls, op, arg, index, other, pre, ret,
          rendered, headRemoved, called>>

NoRet == [segmentsGroupRemoved |-> 0, segmentsRemoved |-> 0, bool |-> FALSE]
NoRendered == [text |-> "", err |-> NoError, again |-> ""]

Counts == (0 - 1) .. MaxN

Init ==
    /\ file \in Texts
    /\ pc = "new"
    /\ base = ZeroManifest
    /\ parseErr = NoError
    /\ parsed = ZeroManifest
    /\ calls = 0
    /\ op = "none"
    /\ arg = 0
    /\ index = 0
    /\ other = ZeroManifest
    /\ pre = ZeroManifest
    /\ ret = NoRet
    /\ rendered = NoRendered
    /\ headRemoved = 0
    /\ called = {}

\* readManifest: ParseHlsManifest(file), fatal on error
Parse ==
    /\ pc = "new"
    /\ \E r \in {ParseHlsManifest(file)} :
         /\ base' = r.manifest
         /\ parseErr' = r.err
         /\ parsed' = r.manifest
         /\ pc' = IF r.err = NoError THEN "ready" ELSE "failed"
    /\ UNCHANGED <<file, calls, op, arg, index, other, pre, ret, rendered,
                   headRemoved, called>>

CanCall == pc = "ready" /\ calls < MaxCalls

\* base.Merge(o)
CallMerge ==
    /\ CanCall
    /\ \E o \in Others :
         \E r \in {Merge(base, o)} :
           /\ base' = r.m
           /\ other' = o
           /\ ret' = [NoRet EXCEPT !.bool = r.hasBreakingChange]
    /\ op' = "Merge"
    /\ arg' = 0
    /\ index' = 0
    /\ pre' = base
    /\ calls' = calls + 1
    /\ called' = called \cup {"Merge"}
    /\ UNCHANGED <<file, pc, parseErr, parsed, rendered, headRemoved>>

\* base.IsCompatible(o)
CallIsCompatible ==
    /\ CanCall
    /\ \E o \in Others :
         /\ other' = o
         /\ ret' = [NoRet EXCEPT !.bool = IsCompatible(base, o)]
    /\ op' = "IsCompatible"
    /\ arg' = 0
    /\ index' = 0
    /\ pre' = base
    /\ calls' = calls + 1
    /\ called' = called \cup {"IsCompatible"}
    /\ UNCHANGED <<file, pc, base, parseErr, parsed, rendered, headRemoved>>

\* base.RemoveFromStart(n)
CallRemoveFromStart ==
    /\ CanCall
    /\ \E n \in Counts :
         \E r \in {RemoveFromStart(base, n)} :
           /\ base' = r.m
           /\ arg' = n
           /\ ret' = [NoRet EXCEPT !.segmentsGroupRemoved = r.segmentsGroupRemoved,
                                   !.segmentsRemoved = r.segmentsRemoved]
           /\ headRemoved' = headRemoved + r.segmentsRemoved
    /\ op' = "RemoveFromStart"
    /\ index' = 0
    /\ pre' = base
    /\ calls' = calls + 1
    /\ called' = called \cup {"RemoveFromStart"}
    /\ UNCHANGED <<file, pc, parseErr, parsed, other, rendered>>

\* base.RemoveFromEnd(n)
CallRemoveFromEnd ==
    /\ CanCall
    /\ \E n \in Counts :
         \E r \in {RemoveFromEnd(base, n)} :
           /\ base' = r.m
           /\ arg' = n
           /\ ret' = [NoRet EXCEPT !.segmentsGroupRemoved = r.segmentsGroupRemoved,
                                   !.segmentsRemoved = r.segmentsRemoved]
    /\ op' = "RemoveFromEnd"
    /\ index' = 0
    /\ pre' = base
    /\ calls' = calls + 1
    /\ called' = called \cup {"RemoveFromEnd"}
    /\ UNCHANGED <<file, pc, parseErr, parsed, other, rendered, headRemoved>>

\* base.SegmentGroups[i].RemoveFromStart(n): the exported method of the
\* group called on a group of base (i counts from 1 here).  The group is
\* trimmed in place and the count removed is returned; the group stays in
\* the manifest when emptied and neither sequence is updated.
CallGroupRemoveFromStart ==
    /\ CanCall
    /\ \E i \in 1..Len(base.SegmentGroups) :
         \E n \in Counts :
           \E r \in {GroupRemoveFromStart(base.SegmentGroups[i], n)} :
             /\ base' = [base EXCEPT !.SegmentGroups[i] = r.group]
             /\ index' = i
             /\ arg' = n
             /\ ret' = [NoRet EXCEPT !.segmentsRemoved = r.removed]
    /\ op' = "GroupRemoveFromStart"
    /\ pre' = base
    /\ calls' = calls + 1
    /\ called' = called \cup {"GroupRemoveFromStart"}
    /\ UNCHANGED <<file, pc, parseErr, parsed, other, rendered, headRemoved>>

\* base.SegmentGroups[i].RemoveFromEnd(n)
CallGroupRemoveFromEnd ==
    /\ CanCall
    /\ \E i \in 1..Len(base.SegmentGroups) :
         \E n \in Counts :
           \E r \in {GroupRemoveFromEnd(base.SegmentGroups[i], n)} :
             /\ base' = [base EXCEPT !.SegmentGroups[i] = r.group]
             /\ index' = i
             /\ arg' = n
             /\ ret' = [NoRet EXCEPT !.segmentsRemoved = r.removed]
    /\ op' = "GroupRemoveFromEnd"
    /\ pre' = base
    /\ calls' = calls + 1
    /\ called' = called \cup {"GroupRemoveFromEnd"}
    /\ UNCHANGED <<file, pc, parseErr, parsed, other, rendered, headRemoved>>

\* testToString(base): String, ParseHlsManifest of the text, String again
\* (string_test.go:80-93; the second String is not reached when the parse
\* fails).  It takes any manifest, whatever was called on it before.
CallString ==
    /\ CanCall
    /\ \E text \in {String(base)} :
         \E r \in {ParseHlsManifest(text)} :
           rendered' = [text  |-> text,
                        err   |-> r.err,
                        again |-> IF r.err = NoError THEN String(r.manifest) ELSE ""]
    /\ op' = "String"
    /\ arg' = 0
    /\ index' = 0
    /\ pre' = base
    /\ ret' = NoRet
    /\ calls' = calls + 1
    /\ called' = called \cup {"String"}
    /\ UNCHANGED <<file, pc, base, parseErr, parsed, other, headRemoved>>

Next ==
    \/ Parse
    \/ CallMerge
    \/ CallIsCompatible
    \/ CallRemoveFromStart
    \/ CallRemoveFromEnd
    \/ CallGroupRemoveFromStart
    \/ CallGroupRemoveFromEnd
    \/ CallString

Spec == Init /\ [][Next]_vars

(***************************************************************************)
(* Vocabulary of the claims.                                               *)
(***************************************************************************)
Min(a, b) == IF a <= b THEN a ELSE b

\* the segments of the groups in playback order
RECURSIVE Flatten(_)
Flatten(groups) ==
    IF groups = <<>> THEN <<>>
    ELSE groups[1].Segments \o Flatten(Tail(groups))

\* the sizes of the groups
ShapeOf(groups) == [i \in 1..Len(groups) |-> Len(groups[i].Segments)]

NoEmptyGroup(groups) == \A i \in 1..Len(groups) : Len(groups[i].Segments) >= 1

\* how many groups lie entirely within the first k, the last k segments
HeadGroupsWithin(groups, k) ==
    Cardinality({i \in 1..Len(groups) : SumLen(SubSeq(groups, 1, i)) <= k})
TailGroupsWithin(groups, k) ==
    Cardinality({i \in 1..Len(groups) : SumLen(SubSeq(groups, i, Len(groups))) <= k})

Max(a, b) == IF a >= b THEN a ELSE b

\* the methods of a group, called on a group of base directly
GroupCalls == {"GroupRemoveFromStart", "GroupRemoveFromEnd"}

\* base was changed through the methods of the manifest only
ManifestCallsOnly == called \cap GroupCalls = {}

\* base is a manifest as parsed or as merged: nothing was removed from it
AsParsedOrMerged == called \subseteq {"Merge", "IsCompatible", "String"}

(***************************************************************************)
(* C1: on a manifest without empty groups RemoveFromStart(n), n >= 1,      *)
(* removes exactly k = min(n, SegmentCount)                                *)
(* segments from the head: the flattened segments afterwards are the       *)
(* original ones without the first k, SegmentCount decreases by k, the     *)
(* returned segmentsRemoved is k, and n >= SegmentCount leaves no group.   *)
(***************************************************************************)
C1_RemoveFromStartDropsHead ==
    (op = "RemoveFromStart" /\ arg >= 1 /\ NoEmptyGroup(pre.SegmentGroups)) =>
        LET all == Flatten(pre.SegmentGroups)
            k   == Min(arg, SegmentCount(pre))
        IN  /\ Flatten(base.SegmentGroups) = SubSeq(all, k + 1, Len(all))
            /\ SegmentCount(base) = SegmentCount(pre) - k
            /\ ret.segmentsRemoved = k
            /\ (arg >= SegmentCount(pre) => base.SegmentGroups = <<>>)

\* more requested than two groups hold: the true count is returned
C1_Witness ==
    /\ op = "RemoveFromStart"
    /\ Len(pre.SegmentGroups) = 2
    /\ arg > SegmentCount(pre)
    /\ ret.segmentsRemoved = SegmentCount(pre)
    /\ base.SegmentGroups = <<>>

(***************************************************************************)
(* C2: on a manifest without empty groups                                  *)
(* RemoveFromStart(n) adds the returned segmentsRemoved to             *)
(* mediaSequence and the returned groupsRemoved to discontinuitySequence   *)
(* (uint32 additions), groupsRemoved being the number of groups all of     *)
(* whose segments were removed; groups [2,3] with counters 0,0 give        *)
(* 1, 0, [1,3] for n = 1 and 3, 1, [2] for n = 3.                          *)
(***************************************************************************)
C2_RemoveFromStartCounters ==
    (op = "RemoveFromStart" /\ NoEmptyGroup(pre.SegmentGroups)) =>
        /\ base.MediaSequence = AddUint32(pre.MediaSequence, ret.segmentsRemoved)
        /\ base.DiscontinuitySequence =
               AddUint32(pre.DiscontinuitySequence, ret.segmentsGroupRemoved)
        /\ ret.segmentsGroupRemoved =
               HeadGroupsWithin(pre.SegmentGroups, ret.segmentsRemoved)
        /\ ( /\ ShapeOf(pre.SegmentGroups) = <<2, 3>>
             /\ pre.MediaSequence = ZeroUint32
             /\ pre.DiscontinuitySequence = ZeroUint32 ) =>
               /\ arg = 1 => /\ base.MediaSequence = Uint32(0, 1)
                             /\ base.DiscontinuitySequence = ZeroUint32
                             /\ ShapeOf(base.SegmentGroups) = <<1, 3>>
               /\ arg = 3 => /\ base.MediaSequence = Uint32(0, 3)
                             /\ base.DiscontinuitySequence = Uint32(0, 1)
                             /\ ShapeOf(base.SegmentGroups) = <<2>>

\* the second example: the first group consumed, the second in part
C2_Witness ==
    /\ op = "RemoveFromStart"
    /\ arg = 3
    /\ ShapeOf(pre.SegmentGroups) = <<2, 3>>
    /\ pre.MediaSequence = ZeroUint32
    /\ pre.DiscontinuitySequence = ZeroUint32
    /\ ShapeOf(base.SegmentGroups) = <<2>>
    /\ ret.segmentsGroupRemoved = 1

(***************************************************************************)
(* C3: on a manifest without empty groups                                  *)
(* RemoveFromEnd(n), n >= 1, removes exactly k = min(n, SegmentCount)      *)
(* segments from the tail: the flattened segments afterwards are the       *)
(* original ones without the last k, the surviving groups keep their       *)
(* order, SegmentCount decreases by k, the returned segmentsRemoved is k,  *)
(* and n >= SegmentCount leaves no group.                                  *)
(***************************************************************************)
C3_RemoveFromEndDropsTail ==
    (op = "RemoveFromEnd" /\ arg >= 1 /\ NoEmptyGroup(pre.SegmentGroups)) =>
        LET all == Flatten(pre.SegmentGroups)
            k   == Min(arg, SegmentCount(pre))
        IN  /\ Flatten(base.SegmentGroups) = SubSeq(all, 1, Len(all) - k)
            /\ Len(base.SegmentGroups) <= Len(pre.SegmentGroups)
            /\ \A i \in 1..Len(base.SegmentGroups) :
                   base.SegmentGroups[i].Segments =
                       SubSeq(pre.SegmentGroups[i].Segments, 1,
                              Len(base.SegmentGroups[i].Segments))
            /\ SegmentCount(base) = SegmentCount(pre) - k
            /\ ret.segmentsRemoved = k
            /\ (arg >= SegmentCount(pre) => base.SegmentGroups = <<>>)

\* the last group consumed, two groups survive, the second one in part
C3_Witness ==
    /\ op = "RemoveFromEnd"
    /\ Len(pre.SegmentGroups) = 3
    /\ Len(base.SegmentGroups) = 2
    /\ Len(base.SegmentGroups[2].Segments) < Len(pre.SegmentGroups[2].Segments)
    /\ ret.segmentsRemoved = arg

(***************************************************************************)
(* C4: on a manifest without empty groups                                  *)
(* RemoveFromEnd(n) adds the number of groups it emptied (the returned *)
(* groupsRemoved) to discontinuitySequence and the number of segments it   *)
(* removed (the returned segmentsRemoved) to mediaSequence (uint32         *)
(* additions); groups [2,3] and n = 1 give [2,2], discontinuitySequence    *)
(* unchanged and mediaSequence one more.                                   *)
(***************************************************************************)
C4_RemoveFromEndCounters ==
    (op = "RemoveFromEnd" /\ NoEmptyGroup(pre.SegmentGroups)) =>
        /\ base.DiscontinuitySequence =
               AddUint32(pre.DiscontinuitySequence, ret.segmentsGroupRemoved)
        /\ ret.segmentsGroupRemoved =
               TailGroupsWithin(pre.SegmentGroups, ret.segmentsRemoved)
        /\ base.MediaSequence = AddUint32(pre.MediaSequence, ret.segmentsRemoved)
        /\ ret.segmentsRemoved = SegmentCount(pre) - SegmentCount(base)
        /\ (ShapeOf(pre.SegmentGroups) = <<2, 3>> /\ arg = 1) =>
               /\ ShapeOf(base.SegmentGroups) = <<2, 2>>
               /\ base.DiscontinuitySequence = pre.DiscontinuitySequence
               /\ base.MediaSequence = AddUint32(pre.MediaSequence, 1)

\* the example, from counters 0,0
C4_Witness ==
    /\ op = "RemoveFromEnd"
    /\ arg = 1
    /\ ShapeOf(pre.SegmentGroups) = <<2, 3>>
    /\ ShapeOf(base.SegmentGroups) = <<2, 2>>
    /\ pre.MediaSequence = ZeroUint32
    /\ base.MediaSequence = Uint32(0, 1)
    /\ base.DiscontinuitySequence = ZeroUint32

(***************************************************************************)
(* C5: mediaSequence counts only head removals: after any sequence of      *)
(* RemoveFromStart, RemoveFromEnd and Merge calls of the manifest on a     *)
(* parsed manifest, mediaSequence is its parsed value plus the  *)
(* number of segments removed from the head.                               *)
(***************************************************************************)
C5_MediaSequenceCountsHeadRemovals ==
    (pc = "ready" /\ ManifestCallsOnly) =>
        base.MediaSequence = AddUint32(parsed.MediaSequence, headRemoved)

(***************************************************************************)
(* C6: round trip: for a manifest as parsed or as merged, with either      *)
(* value of hasEndList, parsing String(m) succeeds and rendering the       *)
(* result gives String(m) again.                                           *)
(***************************************************************************)
C6_RoundTrip ==
    (op = "String" /\ AsParsedOrMerged) =>
        /\ rendered.err = NoError
        /\ rendered.again = rendered.text

(***************************************************************************)
(* C7: no empty group is ever retained: after a successful parse and any   *)
(* sequence of Merge, RemoveFromStart and RemoveFromEnd calls of the       *)
(* manifest, every group of the manifest (and of a parsed manifest merged into it) holds   *)
(* at least one segment.                                                   *)
(***************************************************************************)
C7_NoEmptyGroupRetained ==
    (pc = "ready" /\ ManifestCallsOnly) =>
        /\ NoEmptyGroup(base.SegmentGroups)
        /\ NoEmptyGroup(parsed.SegmentGroups)
        /\ NoEmptyGroup(other.SegmentGroups)

\* a merged manifest trimmed from the end: groups were emptied and dropped,
\* groups remain
C7_Witness ==
    /\ op = "RemoveFromEnd"
    /\ Len(pre.SegmentGroups) > Len(parsed.SegmentGroups)
    /\ Len(parsed.SegmentGroups) >= 1
    /\ ret.segmentsGroupRemoved >= 1
    /\ Len(base.SegmentGroups) >= 1

(***************************************************************************)
(* C8: Merge sets version and targetDuration to the maximum of both sides  *)
(* and returns true exactly when one of the two was strictly raised.       *)
(***************************************************************************)
C8_MergeRaisesToMax ==
    op = "Merge" =>
        /\ base.Version = Max(pre.Version, other.Version)
        /\ base.TargetDuration = Max(pre.TargetDuration, other.TargetDuration)
        /\ ret.bool = (other.Version > pre.Version
                       \/ other.TargetDuration > pre.TargetDuration)

\* the version alone was raised
C8_Witness ==
    /\ op = "Merge"
    /\ other.Version > pre.Version
    /\ other.TargetDuration <= pre.TargetDuration
    /\ ret.bool
    /\ base.Version = other.Version

(***************************************************************************)
(* C9: Merge concatenates the groups without collapsing: base's previous   *)
(* groups, then other's, each side in its order and unchanged; g1 + g2     *)
(* groups, and the segment counts add up.                                  *)
(***************************************************************************)
C9_MergeConcatenatesGroups ==
    op = "Merge" =>
        LET g1 == Len(pre.SegmentGroups)
            g2 == Len(other.SegmentGroups)
        IN  /\ Len(base.SegmentGroups) = g1 + g2
            /\ \A i \in 1..g1 : base.SegmentGroups[i] = pre.SegmentGroups[i]
            /\ \A j \in 1..g2 : base.SegmentGroups[g1 + j] = other.SegmentGroups[j]
            /\ SegmentCount(base) = SegmentCount(pre) + SegmentCount(other)

\* two groups on each side
C9_Witness ==
    /\ op = "Merge"
    /\ Len(pre.SegmentGroups) = 2
    /\ Len(other.SegmentGroups) = 2
    /\ Len(base.SegmentGroups) = 4

(***************************************************************************)
(* C10: IsCompatible(a, b) is true exactly when a.version >= b.version and *)
(* a.targetDuration >= b.targetDuration; it is asymmetric: (3,8) is        *)
(* compatible with (3,4) but not (3,4) with (3,8); equal version and       *)
(* target duration are compatible.                                         *)
(***************************************************************************)
C10_IsCompatible ==
    op = "IsCompatible" =>
        LET a == <<pre.Version, pre.TargetDuration>>
            b == <<other.Version, other.TargetDuration>>
        IN  /\ ret.bool = (a[1] >= b[1] /\ a[2] >= b[2])
            /\ (a = <<3, 8>> /\ b = <<3, 4>>) => ret.bool
            /\ (a = <<3, 4>> /\ b = <<3, 8>>) => ~ret.bool
            /\ a = b => ret.bool

\* the example: a = (3,8) against b = (3,4)
C10_Witness ==
    /\ op = "IsCompatible"
    /\ <<pre.Version, pre.TargetDuration>> = <<3, 8>>
    /\ <<other.Version, other.TargetDuration>> = <<3, 4>>
    /\ ret.bool

(***************************************************************************)
(* C11: RemoveFromStart(n) and RemoveFromEnd(n) with n <= 0 are no-ops:    *)
(* they return (0,0) and leave the groups, both counters, version,         *)
(* targetDuration and hasEndList unchanged, the empty manifest included.   *)
(***************************************************************************)
C11_NonPositiveCountIsNoOp ==
    (op \in {"RemoveFromStart", "RemoveFromEnd"} /\ arg <= 0) =>
        /\ ret.segmentsGroupRemoved = 0
        /\ ret.segmentsRemoved = 0
        /\ base.SegmentGroups = pre.SegmentGroups
        /\ base.MediaSequence = pre.MediaSequence
        /\ base.DiscontinuitySequence = pre.DiscontinuitySequence
        /\ base.Version = pre.Version
        /\ base.TargetDuration = pre.TargetDuration
        /\ base.HasEndList = pre.HasEndList

\* a negative count on a manifest of two groups
C11_Witness ==
    /\ op = "RemoveFromEnd"
    /\ arg < 0
    /\ Len(pre.SegmentGroups) = 2
    /\ base = pre
    /\ ret = NoRet

(***************************************************************************)
(* The parser on arbitrary texts: ParseHlsManifest applied to every text   *)
(* of a lead (the declaration, the declaration after an empty line,        *)
(* nothing, or the declaration with a first group closed by a              *)
(* discontinuity marker) followed by at most MaxLines lines drawn from the *)
(* samples.                                                                *)
(***************************************************************************)
MaxLines == 4

LeadSamples ==
    {<<DeclarationField>>, <<"", DeclarationField>>, <<>>,
     <<DeclarationField, "#EXTINF:4.50,", "b.ts", DiscontinuityField>>}

BodyLineSamples ==
    {"", "a.ts", "#EXTINF:3,t", "#EXTINF:3", "#EXTINF:,t", "#EXTINF:x,",
     "#EXT-X-VERSION:3", DiscontinuityField, EndListField}

RawTexts ==
    {Join(lead \o body) :
        lead \in LeadSamples,
        body \in UNION {[1..k -> BodyLineSamples] : k \in 0..MaxLines}}

InitParse ==
    /\ file \in RawTexts
    /\ pc = "new"
    /\ base = ZeroManifest
    /\ parseErr = NoError
    /\ parsed = ZeroManifest
    /\ calls = 0
    /\ op = "none"
    /\ arg = 0
    /\ index = 0
    /\ other = ZeroManifest
    /\ pre = ZeroManifest
    /\ ret = NoRet
    /\ rendered = NoRendered
    /\ headRemoved = 0
    /\ called = {}

NextParse == Parse

SpecParse == InitParse /\ [][NextParse]_vars

(***************************************************************************)
(* Vocabulary of the parser claims.                                        *)
(***************************************************************************)
\* the branch of the loop body a line takes by its prefix
Kind(ln) ==
    IF HasPrefix(ln, VersionField) THEN "metadata"
    ELSE IF HasPrefix(ln, TargetDurationField) THEN "metadata"
    ELSE IF HasPrefix(ln, MediaSequenceField) THEN "metadata"
    ELSE IF HasPrefix(ln, DiscontinuitySequenceField) THEN "metadata"
    ELSE IF HasPrefix(ln, SegmentField) THEN "segment"
    ELSE IF HasPrefix(ln, DiscontinuityField) THEN "discontinuity"
    ELSE IF HasPrefix(ln, EndListField) THEN "endList"
    ELSE "other"

\* the duration value a segment-info line carries: what stands between the
\* ":" and the title separator, or the end of the line
DurationText(ln) == Cut(getValue(ln), ",").before

\* a segment-info line the parser accepts
ValidInfo(ln) ==
    /\ Kind(ln) = "segment"
    /\ Cut(getValue(ln), ",").found
    /\ ParseFloat(DurationText(ln)).err = "nil"

\* where processing stops: the first end-marker line, else past the last line
EndOf(ls) ==
    LET ends == {x \in 2..Len(ls) : Kind(ls[x]) = "endList"}
    IN  IF ends = {} THEN Len(ls) + 1
        ELSE CHOOSE x \in ends : \A y \in ends : x <= y

\* the number of lines of a text: a final line break ends the last line
NumLines(t) ==
    LET n == Len(Split(t))
    IN  IF Len(t) > 0 /\ CharAt(t, Len(t)) = "\n" THEN n - 1 ELSE n

(***************************************************************************)
(* C12: every segment of a successfully parsed manifest has a non-empty    *)
(* path, whatever the lines of the text (a blank line directly after a     *)
(* segment-info line included).                                            *)
(***************************************************************************)
C12_PathsNonEmpty ==
    pc = "ready" =>
        \A i \in 1..Len(base.SegmentGroups) :
            \A j \in 1..Len(base.SegmentGroups[i].Segments) :
                base.SegmentGroups[i].Segments[j].Path # ""

(***************************************************************************)
(* C13: ParseHlsManifest fails with InvalidLine only at a line that is     *)
(* none of the directives or markers and is non-empty (the error carries   *)
(* that line); an empty line never causes InvalidLine.                     *)
(***************************************************************************)
C13_InvalidLineOnlyForNonEmpty ==
    (pc = "failed" /\ parseErr.Err = "ErrInvalidField") =>
        LET ls == Split(file)
        IN  /\ parseErr.Line \in 2..Len(ls)
            /\ Kind(ls[parseErr.Line]) = "other"
            /\ parseErr.Field = ls[parseErr.Line]
            /\ ls[parseErr.Line] # ""

(***************************************************************************)
(* C14: ParseHlsManifest fails with MissingDeclaration at line 1 exactly   *)
(* when the first non-empty line of the text is not #EXTM3U; leading       *)
(* empty lines before #EXTM3U give no MissingDeclaration.                  *)
(***************************************************************************)
C14_DeclarationIsFirstNonEmptyLine ==
    pc # "new" =>
        LET ls == Split(file)
            nonEmpty == {x \in 1..Len(ls) : ls[x] # ""}
            first == IF nonEmpty = {} THEN ""
                     ELSE ls[CHOOSE x \in nonEmpty : \A y \in nonEmpty : x <= y]
        IN  (parseErr = declarationError) <=> (first # DeclarationField)

(***************************************************************************)
(* C15: a segment-info line seen while another segment is still pending    *)
(* makes ParseHlsManifest fail with MissingSegmentPath at the line of the  *)
(* second info line; so in a successful parse every segment-info line is   *)
(* followed by exactly one path line before the next segment-info line     *)
(* (or the end of processing).                                             *)
(***************************************************************************)
C15_InfoWhilePending ==
    pc # "new" =>
        LET ls == Split(file)
            stop == EndOf(ls)
            \* i opened a segment that is still pending right before j
            PendingFrom(i, j) ==
                /\ ValidInfo(ls[i])
                /\ \A x \in (i + 1)..(j - 1) :
                       Kind(ls[x]) \in {"metadata", "discontinuity"}
            \* nothing stopped the parse before line j
            Reaches(j) ==
                /\ ls[1] = DeclarationField
                /\ j < stop
                /\ (pc = "failed" => parseErr.Line >= j)
        IN  /\ \A j \in 3..Len(ls) :
                   ( /\ Kind(ls[j]) = "segment"
                     /\ Reaches(j)
                     /\ \E i \in 2..(j - 1) : PendingFrom(i, j) ) =>
                       (pc = "failed" /\ parseErr = segmentPathError(j))
            /\ pc = "ready" =>
                   \A i \in 2..(stop - 1) :
                       Kind(ls[i]) = "segment" =>
                           LET later == {x \in (i + 1)..(stop - 1) : Kind(ls[x]) = "segment"}
                               upto == IF later = {} THEN stop
                                       ELSE CHOOSE x \in later : \A y \in later : x <= y
                           IN  Cardinality({x \in (i + 1)..(upto - 1) :
                                                Kind(ls[x]) = "other"}) = 1

\* two info lines in a row after the declaration: the second one fails
C15_Witness ==
    /\ pc = "failed"
    /\ parseErr = segmentPathError(3)
    /\ Len(Split(file)) >= 3
    /\ Split(file)[1] = DeclarationField
    /\ ValidInfo(Split(file)[2])
    /\ Kind(Split(file)[3]) = "segment"

(***************************************************************************)
(* C16: when the input ends (end of text or end marker) while a segment is *)
(* pending, ParseHlsManifest fails with MissingSegmentPath at the line     *)
(* past the end of the input: (number of lines of the text) + 1.           *)
(***************************************************************************)
C16_MissingPathLinePastEnd ==
    LET ls == Split(file)
        st == ParseLoop(ParseStart, Tail(ls), 0)
    IN  ( /\ pc # "new"
          /\ ls[1] = DeclarationField
          /\ st.err = NoError
          /\ st.tempSegment # <<>> ) =>
            (pc = "failed" /\ parseErr = segmentPathError(NumLines(file) + 1))

(***************************************************************************)
(* C17: the outcome of ParseHlsManifest (manifest and error, with kind and *)
(* line number) for a text with an end-marker line is the outcome for the  *)
(* text cut right after its first end-marker line.                         *)
(***************************************************************************)
C17_LinesAfterEndMarkerIgnored ==
    LET ls == Split(file)
        stop == EndOf(ls)
    IN  (pc # "new" /\ stop <= Len(ls)) =>
            LET cut == ParseHlsManifest(Join(SubSeq(ls, 1, stop)))
            IN  /\ base = cut.manifest
                /\ parseErr = cut.err

(***************************************************************************)
(* C18: a segment-info line with a parsable duration opens a pending       *)
(* segment with or without a title separator; the line fails with          *)
(* MissingFieldValue exactly when its duration value is absent and with    *)
(* FieldParseError exactly when the value is present but not a number.     *)
(***************************************************************************)
C18_SegmentInfoErrors ==
    LET ls == Split(file)
    IN  ( /\ pc = "failed"
          /\ parseErr.Field = SegmentField
          /\ parseErr.Err # "ErrSegmentPathMissing"
          /\ parseErr.Line \in 2..Len(ls) ) =>
            LET d == DurationText(ls[parseErr.Line])
            IN  /\ Kind(ls[parseErr.Line]) = "segment"
                /\ (parseErr.Err = "ErrFieldRequireValue") <=> (d = "")
                /\ (parseErr.Err \in {"ErrSyntax", "ErrRange"}) <=>
                       (d # "" /\ ParseFloat(d).err # "nil")

(***************************************************************************)
(* C19: mediaSequence and discontinuitySequence are monotonic: in a        *)
(* sequence of calls of the manifest, no                                   *)
(* RemoveFromStart, RemoveFromEnd or Merge call leaves either counter      *)
(* smaller than it was before the call, whatever 32-bit value the text     *)
(* declared.                                                               *)
(***************************************************************************)
C19_CountersMonotonic ==
    (op \in {"RemoveFromStart", "RemoveFromEnd", "Merge"} /\ ManifestCallsOnly) =>
        /\ LeqUint32(pre.MediaSequence, base.MediaSequence)
        /\ LeqUint32(pre.DiscontinuitySequence, base.DiscontinuitySequence)

\* the discontinuity boundaries of a manifest: the joins between two
\* adjacent groups
Boundaries(m) == Max(Len(m.SegmentGroups) - 1, 0)

(***************************************************************************)
(* C20: discontinuitySequence counts consumed discontinuity boundaries: in *)
(* a sequence of calls of the manifest                                     *)
(* every RemoveFromStart and RemoveFromEnd call adds to it the number of   *)
(* boundaries (joins between two adjacent groups) the call consumed, also  *)
(* when it removes every group; summed over the calls, the counter minus   *)
(* its parsed value is the number of boundaries consumed.                  *)
(***************************************************************************)
C20_DiscontinuityCountsBoundaries ==
    (op \in {"RemoveFromStart", "RemoveFromEnd"} /\ ManifestCallsOnly) =>
        base.DiscontinuitySequence =
            AddUint32(pre.DiscontinuitySequence, Boundaries(pre) - Boundaries(base))

\* the segment a segment-info line at i describes within the lines up to
\* b: its path is the first line after it that is no directive or marker
SegmentAt(ls, i, b) ==
    LET paths == {x \in (i + 1)..b : Kind(ls[x]) = "other"}
    IN  [Path     |-> IF paths = {} THEN ""
                      ELSE ls[CHOOSE x \in paths : \A y \in paths : x <= y],
         Duration |-> ParseFloat(DurationText(ls[i])).value,
         Title    |-> Cut(getValue(ls[i]), ",").after]

\* the segments of the run of lines a..b, in input order
RECURSIVE RunSegments(_, _, _)
RunSegments(ls, a, b) ==
    IF a > b THEN <<>>
    ELSE (IF Kind(ls[a]) = "segment" THEN <<SegmentAt(ls, a, b)>> ELSE <<>>)
         \o RunSegments(ls, a + 1, b)

\* the non-empty runs of segments between the discontinuity markers of the
\* lines a..stop-1, in input order
RECURSIVE RunGroups(_, _, _)
RunGroups(ls, a, stop) ==
    IF a >= stop THEN <<>>
    ELSE LET marks == {x \in a..(stop - 1) : Kind(ls[x]) = "discontinuity"}
             d     == IF marks = {} THEN stop
                      ELSE CHOOSE x \in marks : \A y \in marks : x <= y
             segs  == RunSegments(ls, a, d - 1)
         IN  (IF segs = <<>> THEN <<>> ELSE <<[Segments |-> segs]>>)
             \o RunGroups(ls, d + 1, stop)

(***************************************************************************)
(* C21: in every successful parse the groups of the manifest are exactly   *)
(* the maximal non-empty runs of completed segments between the            *)
(* discontinuity-marker lines, in input order: leading, trailing and       *)
(* consecutive markers create no group, and the group pending at the end   *)
(* of the input or at the end marker is the final group.                   *)
(***************************************************************************)
C21_GroupsAreRunsBetweenMarkers ==
    pc = "ready" =>
        base.SegmentGroups = RunGroups(Split(file), 2, EndOf(Split(file)))

\* a group closed by a marker, a second marker right after it, and a group
\* ended by the end of the text
C21_Witness ==
    /\ pc = "ready"
    /\ Len(Split(file)) = 7
    /\ Kind(Split(file)[4]) = "discontinuity"
    /\ Kind(Split(file)[5]) = "discontinuity"
    /\ Kind(Split(file)[6]) = "segment"
    /\ Len(base.SegmentGroups) = 2
    /\ base.SegmentGroups[1].Segments[1].Path = "b.ts"
    /\ base.SegmentGroups[2].Segments[1].Path = "a.ts"

(***************************************************************************)
(* C22: ParseHlsManifest reports the first error only: the line number of  *)
(* the error is the 1-based index of the earliest line at which the text   *)
(* violates the grammar, and no line after that one influences the error.  *)
(* So whenever the first k lines of a text alone fail with an error at a   *)
(* line within those k, the whole text fails with that same error.         *)
(***************************************************************************)
C22_FirstErrorOnly ==
    pc # "new" =>
        LET ls == Split(file)
        IN  \A k \in 1..Len(ls) :
                LET e == ParseHlsManifest(Join(SubSeq(ls, 1, k))).err
                IN  (e # NoError /\ e.Line <= k) => parseErr = e

C24_MergeAgreesWithIsCompatible ==
    op = "Merge" =>
        /\ ret.bool = ~IsCompatible(pre, other)
        /\ IsCompatible(base, other)

\* a merge that raised the target duration
C24_Witness ==
    /\ op = "Merge"
    /\ ret.bool
    /\ ~IsCompatible(pre, other)
    /\ other.TargetDuration > pre.TargetDuration
    /\ IsCompatible(base, other)

(***************************************************************************)
(* C25: head trimming composes on a manifest without empty groups: after   *)
(* RemoveFromStart(a), a >= 0, a                                           *)
(* following RemoveFromStart(b), b >= 0, leaves the groups and both        *)
(* counters a single RemoveFromStart(a + b) leaves, and the returned group *)
(* and segment counts of the two calls sum to those of the single call.    *)
(***************************************************************************)
C25_HeadTrimmingComposes ==
    (op = "RemoveFromStart" /\ arg >= 0 /\ NoEmptyGroup(pre.SegmentGroups)) =>
        \A b \in 0..MaxN :
            LET second == RemoveFromStart(base, b)
                single == RemoveFromStart(pre, arg + b)
            IN  /\ second.m.SegmentGroups = single.m.SegmentGroups
                /\ second.m.MediaSequence = single.m.MediaSequence
                /\ second.m.DiscontinuitySequence = single.m.DiscontinuitySequence
                /\ ret.segmentsRemoved + second.segmentsRemoved = single.segmentsRemoved
                /\ ret.segmentsGroupRemoved + second.segmentsGroupRemoved
                       = single.segmentsGroupRemoved

\* the first call leaves the first group in part, a second call of 2
\* consumes it and enters the next group
C25_Witness ==
    /\ op = "RemoveFromStart"
    /\ arg = 1
    /\ ShapeOf(pre.SegmentGroups) = <<2, 3>>
    /\ ShapeOf(base.SegmentGroups) = <<1, 3>>
    /\ ShapeOf(RemoveFromStart(base, 2).m.SegmentGroups) = <<2>>
    /\ RemoveFromStart(base, 2).segmentsGroupRemoved = 1

(***************************************************************************)
(* C26: head and tail trimming commute on a manifest without empty groups: *)
(* RemoveFromStart(a) then                                                 *)
(* RemoveFromEnd(b) leaves the groups and counters RemoveFromEnd(b) then   *)
(* RemoveFromStart(a) leaves whenever a + b <= SegmentCount, and in every  *)
(* case both orders end with the same SegmentCount, mediaSequence and      *)
(* discontinuitySequence (a, b >= 0).                                      *)
(***************************************************************************)
C26_HeadAndTailTrimmingCommute ==
    (op = "RemoveFromStart" /\ arg >= 0 /\ NoEmptyGroup(pre.SegmentGroups)) =>
        \A b \in 0..MaxN :
            LET startEnd == RemoveFromEnd(base, b).m
                endStart == RemoveFromStart(RemoveFromEnd(pre, b).m, arg).m
            IN  /\ (arg + b <= SegmentCount(pre)) =>
                       startEnd.SegmentGroups = endStart.SegmentGroups
                /\ SegmentCount(startEnd) = SegmentCount(endStart)
                /\ startEnd.MediaSequence = endStart.MediaSequence
                /\ startEnd.DiscontinuitySequence = endStart.DiscontinuitySequence

\* more requested from both ends together than the two groups hold
C26_Witness ==
    /\ op = "RemoveFromStart"
    /\ arg = 3
    /\ ShapeOf(pre.SegmentGroups) = <<2, 3>>
    /\ ShapeOf(base.SegmentGroups) = <<2>>
    /\ RemoveFromEnd(base, 3).m.SegmentGroups = <<>>
    /\ RemoveFromEnd(base, 3).segmentsRemoved = 2

====
